---- MODULE Spec2Model ----
(***************************************************************************)
(* State-machine model of the predictor synthesis scripts of bv_extras.    *)
(*                                                                         *)
(*   read_prt_write_sdm.py : twogamma_hrf, create_weights and the main     *)
(*                           PRT -> SDM script (SpecHrf, SpecWeights,      *)
(*                           SpecCond, SpecSdm)                            *)
(*   plot-motion_compute-extended-motion-sdm-fd.py : the motion variants,  *)
(*                           the combined model, framewise displacement,   *)
(*                           spikes and RMS banding of a batch of runs     *)
(*                           (SpecMotion)                                  *)
(*   preprocess_fmr.py     : the run loop and the step loop of the         *)
(*                           preprocessing pipeline (SpecPrep)             *)
(*   read_prt_write_tsv.py : convert_to_tsv (SpecTsv)                      *)
(*                                                                         *)
(* Numbers.  Kernel and predictor values are exact rationals <<n, d>>.     *)
(* The time -> sample-index computations of the main loop are modelled in  *)
(* IEEE-754 binary64 arithmetic (round to nearest, ties to even), because  *)
(* int() truncates the floating-point result and an error of one ulp can   *)
(* move the index by one sample.                                           *)
(***************************************************************************)
EXTENDS Integers, Sequences, FiniteSets, TLC

(***************************************************************************)
(* Exact rationals: <<n, d>> with d > 0 and gcd(|n|, d) = 1.               *)
(***************************************************************************)
Abs(x) == IF x < 0 THEN -x ELSE x

RECURSIVE GCD(_, _)
GCD(a, b) == IF b = 0 THEN a ELSE GCD(b, a % b)

\* x / 0 is numpy's inf, -inf or nan: <<1, 0>>, <<-1, 0>>, <<0, 0>>
Rat(n, d) ==
    IF d = 0 THEN <<IF n > 0 THEN 1 ELSE IF n < 0 THEN -1 ELSE 0, 0>>
    ELSE LET s == IF d < 0 THEN -1 ELSE 1
             g == GCD(Abs(n), Abs(d))
         IN  <<(s * n) \div g, (s * d) \div g>>

RInt(n) == <<n, 1>>
RZero == RInt(0)
ROne == RInt(1)
\* cross-multiplication by the denominators' cofactors keeps products small
CoF(x, y) == x[2] \div GCD(x[2], y[2])
RAdd(x, y) == Rat(x[1] * CoF(y, x) + y[1] * CoF(x, y), x[2] * CoF(y, x))
RNeg(x) == <<-x[1], x[2]>>
RSub(x, y) == RAdd(x, RNeg(y))
RMul(x, y) ==
    LET g1 == GCD(Abs(x[1]), y[2])
        g2 == GCD(Abs(y[1]), x[2])
    IN  IF g1 = 0 \/ g2 = 0 THEN Rat(x[1] * y[1], x[2] * y[2])
        ELSE Rat((x[1] \div g1) * (y[1] \div g2), (x[2] \div g2) * (y[2] \div g1))
RDiv(x, y) == RMul(x, IF y[1] < 0 THEN <<-y[2], -y[1]>> ELSE <<y[2], y[1]>>)
RLt(x, y) == x[1] * CoF(y, x) < y[1] * CoF(x, y)
RLe(x, y) == x[1] * CoF(y, x) <= y[1] * CoF(x, y)
RAbs(x) == <<Abs(x[1]), x[2]>>
RMax2(x, y) == IF RLt(x, y) THEN y ELSE x
RMin2(x, y) == IF RLt(y, x) THEN y ELSE x

\* an array held by value: every element is computed once
AsArray(f) == f \o <<>>

\* np.sum / np.max / np.min of a non-empty array
RECURSIVE RSumTo(_, _)
RSumTo(a, n) == IF n = 0 THEN RZero ELSE RAdd(RSumTo(a, n - 1), a[n])
RSum(a) == RSumTo(a, Len(a))

RECURSIVE RMaxTo(_, _)
RMaxTo(a, n) == IF n = 1 THEN a[1] ELSE RMax2(RMaxTo(a, n - 1), a[n])
RMaxOf(a) == RMaxTo(a, Len(a))

RECURSIVE RMinTo(_, _)
RMinTo(a, n) == IF n = 1 THEN a[1] ELSE RMin2(RMinTo(a, n - 1), a[n])
RMinOf(a) == RMinTo(a, Len(a))

\* element-wise array / scalar
ArrDiv(a, s) == [i \in 1..Len(a) |-> RDiv(a[i], s)]

(***************************************************************************)
(* twogamma_hrf.  posG and negG are the two gamma densities sampled on the *)
(* kernel grid (scipy.stats.gamma.pdf, lines 113-114); ratio is params[4]. *)
(* The result carries the kernel and the final values of the two local     *)
(* flags that gate the divisions of lines 131-134.                         *)
(***************************************************************************)
RatioMin == Rat(1, 1000)
SumMin == Rat(1, 100)
PeakMin == Rat(1, 10000)

\* faulty variant: the boundary ratio 0.001 takes the degenerate branch
RawHrf_StrictRatio(posG, negG, ratio) ==
    IF RLt(RatioMin, ratio)
    THEN [i \in 1..Len(posG) |-> RSub(posG[i], RDiv(negG[i], ratio))]
    ELSE [i \in 1..Len(posG) |-> RNeg(negG[i])]

RawHrf(posG, negG, ratio) ==
    IF RLe(RatioMin, ratio)
    THEN [i \in 1..Len(posG) |-> RSub(posG[i], RDiv(negG[i], ratio))]
    ELSE [i \in 1..Len(posG) |-> RNeg(negG[i])]

AbsFmax(hrf) == RMax2(RAbs(RMinOf(hrf)), RAbs(RMaxOf(hrf)))

\* faulty variant: sum-normalization takes precedence over unit-peak scaling
HrfFlags_SumFirst(hrf, ScaleToOne, DivideBySum) ==
    LET divide == DivideBySum /\ RLt(SumMin, RSum(hrf))
    IN  [ScaleToOne |-> ScaleToOne /\ ~divide /\ RLe(PeakMin, AbsFmax(hrf)),
         DivideBySum |-> divide]

\* faulty variant: the peak is not tested before scaling
HrfFlags_NoPeakTest(hrf, ScaleToOne, DivideBySum) ==
    LET off == ScaleToOne \/ RLe(RSum(hrf), SumMin)
    IN  [ScaleToOne |-> IF ~off /\ DivideBySum THEN FALSE ELSE ScaleToOne,
         DivideBySum |-> IF off THEN FALSE ELSE DivideBySum]

HrfFlags(hrf, ScaleToOne, DivideBySum) ==
    LET sum_hrf == RSum(hrf)
        abs_fmax == AbsFmax(hrf)
        divide1 == IF ScaleToOne \/ RLe(sum_hrf, SumMin) THEN FALSE ELSE DivideBySum
        scale1 == IF ~(ScaleToOne \/ RLe(sum_hrf, SumMin)) /\ DivideBySum
                  THEN FALSE ELSE ScaleToOne
        scale2 == IF RLt(abs_fmax, PeakMin) THEN FALSE ELSE scale1
    IN  [ScaleToOne |-> scale2, DivideBySum |-> divide1]

twogamma_hrf(posG, negG, ratio, ScaleToOne, DivideBySum) ==
    LET hrf == RawHrf(posG, negG, ratio)
        f == HrfFlags(hrf, ScaleToOne, DivideBySum)
        h1 == IF f.ScaleToOne THEN ArrDiv(hrf, AbsFmax(hrf)) ELSE hrf
        h2 == IF f.DivideBySum THEN ArrDiv(h1, RSum(hrf)) ELSE h1
    IN  [hrf |-> h2, ScaleToOne |-> f.ScaleToOne, DivideBySum |-> f.DivideBySum]

(***************************************************************************)
(* IEEE-754 binary64 values >= 0 as [m, e]: value = m * 2^e.  The          *)
(* significand m is a natural number written in limbs of LimbBits bits,    *)
(* least significant limb first, and is odd (or <<>> for 0), so that equal *)
(* values are equal records.  Only the operations the scripts apply to     *)
(* times are modelled: int / int, float * int, float - float and int().    *)
(***************************************************************************)
MantBits == 53
LimbBits == 18
Base == 2 ^ LimbBits
FracLimbs == 5

Limb(b, j) == IF j >= 1 /\ j <= Len(b) THEN b[j] ELSE 0

BigNorm(b) ==
    LET nz == {i \in 1..Len(b) : b[i] # 0}
    IN  IF nz = {} THEN <<>>
        ELSE SubSeq(b, 1, CHOOSE i \in nz : \A j \in nz : j <= i)

RECURSIVE BigFromNat(_)
BigFromNat(n) == IF n = 0 THEN <<>> ELSE <<n % Base>> \o BigFromNat(n \div Base)

RECURSIVE BigToNat(_)
BigToNat(b) == IF b = <<>> THEN 0 ELSE b[1] + Base * BigToNat(Tail(b))

\* number of bits of a limb x > 0, and of a big number
LimbLen(x) == CHOOSE k \in 1..LimbBits : 2 ^ (k - 1) <= x /\ x < 2 ^ k
BigBitLen(b) ==
    IF b = <<>> THEN 0 ELSE LimbBits * (Len(b) - 1) + LimbLen(b[Len(b)])

\* floor(b / 2^s)
BigShr(b, s) ==
    LET ls == s \div LimbBits
        r == s % LimbBits
    IN  BigNorm([i \in 1..(Len(b) - ls) |->
                    (Limb(b, i + ls) \div 2 ^ r)
                    + (Limb(b, i + ls + 1) % 2 ^ r) * 2 ^ (LimbBits - r)])

\* b * 2^s
BigShl(b, s) ==
    LET ls == s \div LimbBits
        r == s % LimbBits
    IN  BigNorm([i \in 1..(Len(b) + ls + 1) |->
                    (Limb(b, i - ls) % 2 ^ (LimbBits - r)) * 2 ^ r
                    + (Limb(b, i - ls - 1) \div 2 ^ (LimbBits - r))])

\* bit k (from 0) of b, and whether a bit below bit s is set
BigBit(b, k) == (Limb(b, k \div LimbBits + 1) \div 2 ^ (k % LimbBits)) % 2
BigLowBits(b, s) ==
    \/ \E j \in 1..(s \div LimbBits) : Limb(b, j) # 0
    \/ Limb(b, s \div LimbBits + 1) % 2 ^ (s % LimbBits) # 0

RECURSIVE BigMulCarry(_, _, _)
BigMulCarry(b, c, carry) ==
    IF b = <<>> THEN BigFromNat(carry)
    ELSE <<(b[1] * c + carry) % Base>>
         \o BigMulCarry(Tail(b), c, (b[1] * c + carry) \div Base)

RECURSIVE BigSubBorrow(_, _, _)
BigSubBorrow(a, b, borrow) ==
    IF a = <<>> THEN <<>>
    ELSE LET t == a[1] - Limb(b, 1) - borrow
         IN  <<t % Base>>
             \o BigSubBorrow(Tail(a), IF b = <<>> THEN <<>> ELSE Tail(b),
                             IF t < 0 THEN 1 ELSE 0)

\* a - b for a >= b
BigSub(a, b) == BigNorm(BigSubBorrow(a, b, 0))

RECURSIVE BigInc(_)
BigInc(b) ==
    IF b = <<>> THEN <<1>>
    ELSE IF b[1] + 1 < Base THEN <<b[1] + 1>> \o Tail(b)
    ELSE <<0>> \o BigInc(Tail(b))

BigLe(a, b) ==
    \/ Len(a) < Len(b)
    \/ /\ Len(a) = Len(b)
       /\ \A i \in 1..Len(a) :
             (a[i] > b[i]) => \E j \in (i + 1)..Len(a) : a[j] < b[j]

\* the canonical record of m * 2^e: the trailing zero bits of m go to e
FNorm(m, e) ==
    IF m = <<>> THEN [m |-> <<>>, e |-> 0]
    ELSE LET j == CHOOSE i \in 1..Len(m) : m[i] # 0 /\ \A k \in 1..(i - 1) : m[k] = 0
             t == CHOOSE k \in 0..(LimbBits - 1) :
                     m[j] % 2 ^ k = 0 /\ m[j] % 2 ^ (k + 1) # 0
             tz == LimbBits * (j - 1) + t
         IN  [m |-> BigShr(m, tz), e |-> e + tz]

\* round m * 2^e (sticky: a non-zero part below m was cut off) to MantBits
\* significant bits, to nearest, ties to even
FRound(m, sticky, e) ==
    LET drop == BigBitLen(m) - MantBits
    IN  IF drop <= 0 THEN FNorm(m, e)
        ELSE LET kept == BigShr(m, drop)
                 up == /\ BigBit(m, drop - 1) = 1
                       /\ (sticky \/ BigLowBits(m, drop - 1) \/ BigBit(kept, 0) = 1)
             IN  FNorm(IF up THEN BigInc(kept) ELSE kept, e + drop)

FFromInt(n) == FNorm(BigFromNat(n), 0)

\* FracLimbs limbs of the quotient r / d below the limbs acc; the result is
\* <<limbs, remainder>>
RECURSIVE FracDigits(_, _, _, _)
FracDigits(r, d, count, acc) ==
    IF count = 0 THEN <<acc, r>>
    ELSE FracDigits((r * Base) % d, d, count - 1, <<(r * Base) \div d>> \o acc)

\* Python's n / d for integers n >= 0 and 0 < d, d * Base < 2^31
FDivInt(n, d) ==
    IF n = 0 THEN FFromInt(0)
    ELSE LET q == FracDigits(n % d, d, FracLimbs, BigFromNat(n \div d))
         IN  FRound(BigNorm(q[1]), q[2] # 0, -(LimbBits * FracLimbs))

\* x * c for a float x and an integer 0 <= c, c * Base < 2^31
FMulInt(x, c) == FRound(BigNorm(BigMulCarry(x.m, c, 0)), FALSE, x.e)

FLe(x, y) ==
    LET e == IF x.e < y.e THEN x.e ELSE y.e
    IN  BigLe(BigShl(x.m, x.e - e), BigShl(y.m, y.e - e))

\* x - y for floats x >= y >= 0
FSub(x, y) ==
    LET e == IF x.e < y.e THEN x.e ELSE y.e
    IN  FRound(BigSub(BigShl(x.m, x.e - e), BigShl(y.m, y.e - e)), FALSE, e)

\* int(x) for a float x >= 0
FTrunc(x) ==
    IF x.e >= 0 THEN BigToNat(BigShl(x.m, x.e)) ELSE BigToNat(BigShr(x.m, -x.e))

RECURSIVE BigAddCarry(_, _, _)
BigAddCarry(a, b, carry) ==
    IF a = <<>> /\ b = <<>> THEN BigFromNat(carry)
    ELSE LET t == Limb(a, 1) + Limb(b, 1) + carry
         IN  <<t % Base>>
             \o BigAddCarry(IF a = <<>> THEN <<>> ELSE Tail(a),
                            IF b = <<>> THEN <<>> ELSE Tail(b), t \div Base)

\* x + y for floats x, y >= 0
FAdd(x, y) ==
    LET e == IF x.e < y.e THEN x.e ELSE y.e
    IN  FRound(BigNorm(BigAddCarry(BigShl(x.m, x.e - e), BigShl(y.m, y.e - e), 0)),
               FALSE, e)

\* np.rint(x) for a float x >= 0, as an integer: to nearest, ties to even
FRint(x) ==
    IF x.e >= 0 THEN BigToNat(BigShl(x.m, x.e))
    ELSE LET floor == BigToNat(BigShr(x.m, -x.e))
             half == BigBit(x.m, -x.e - 1) = 1
             below == BigLowBits(x.m, -x.e - 1)
         IN  IF half /\ (below \/ floor % 2 = 1) THEN floor + 1 ELSE floor

\* as FracDigits, each limb in two halves, for divisors d with d * 2^9 < 2^31
HalfBase == 2 ^ (LimbBits \div 2)
RECURSIVE FracHalfDigits(_, _, _, _)
FracHalfDigits(r, d, count, acc) ==
    IF count = 0 THEN <<acc, r>>
    ELSE LET r1 == (r * HalfBase) % d
         IN  FracHalfDigits((r1 * HalfBase) % d, d, count - 1,
                            <<((r * HalfBase) \div d) * HalfBase
                              + (r1 * HalfBase) \div d>> \o acc)

\* n / d for integers n >= 0 and 0 < d, d * HalfBase < 2^31
FDivWide(n, d) ==
    IF n = 0 THEN FFromInt(0)
    ELSE LET q == FracHalfDigits(n % d, d, FracLimbs, BigFromNat(n \div d))
         IN  FRound(BigNorm(q[1]), q[2] # 0, -(LimbBits * FracLimbs))

\* np.round(x, 4) for a float x >= 0: rint(x * 10.0**4) / 10.0**4
NpRound4(x) ==
    FDivWide(FRint(FRound(BigNorm(BigMulCarry(BigMulCarry(x.m, 100, 0), 100, 0)),
                          FALSE, x.e)),
             10000)

(***************************************************************************)
(* The main script of read_prt_write_sdm.py: pure parts.                   *)
(* Arrays are sequences; numpy index i is element i + 1.                   *)
(***************************************************************************)
fs == 100

\* create_weights(a, b): b = 0 unchanged, b = 1 demeaned, b = 2 z-scored
\* a name that is not bound (before its assignment, after del)
Unbound == "unbound"

RMean(a) == RDiv(RSum(a), RInt(Len(a)))

\* np.std(a) ** 2 and scipy.stats.zscore's variance (ddof = 0)
RVar(a) ==
    LET mu == RMean(a)
    IN  RDiv(RSum(AsArray([i \in 1..Len(a) |->
                              RMul(RSub(a[i], mu), RSub(a[i], mu))])),
             RInt(Len(a)))

\* (a - mean) / std.  The standard deviation is a square root, so a value is
\* kept as the pair [dev, var] that stands for dev / sqrt(var); var = 0 is
\* the division 0 / 0, numpy's nan.
ZScore(a) ==
    LET mu == RMean(a)
        v == RVar(a)
    IN  AsArray([i \in 1..Len(a) |-> [dev |-> RSub(a[i], mu), var |-> v]])

\* no branch assigns weights for another b: the name stays unbound
create_weights(a, b) ==
    IF b = 0 THEN a
    ELSE IF b = 1 THEN [i \in 1..Len(a) |-> RSub(a[i], RMean(a))]
    ELSE IF b = 2 THEN ZScore(a)
    ELSE Unbound

\* lines 178-182: interval times in seconds
StartSec(start, is_msec, tr) ==
    IF is_msec THEN FDivInt(start, 1000)
    ELSE FSub(FDivInt(start * tr, 1000), FDivInt(tr, 1000))

StopSec(stop, is_msec, tr) ==
    IF is_msec THEN FDivInt(stop, 1000)
    ELSE FDivInt(stop * tr, 1000)

\* lines 183-184: int(sec * fs)
SampleIdx(sec) == FTrunc(FMulInt(sec, fs))

StartIdx(start, is_msec, tr) == SampleIdx(StartSec(start, is_msec, tr))
StopIdx(stop, is_msec, tr) == SampleIdx(StopSec(stop, is_msec, tr))

\* lines 172-173
NTimepointsHires(nvols, tr) == FTrunc(FMulInt(FDivInt(nvols * tr, 1000), fs))

\* line 189
SamplesPerTR(tr) == FTrunc(FDivInt(fs * tr, 1000))

\* numpy: a[lo:hi] = v for 0 <= lo; the slice is clipped to the array
\* faulty variant: overlapping intervals add up
SliceAssign_Sum(a, lo, hi, v) ==
    [i \in 1..Len(a) |-> IF lo <= i - 1 /\ i - 1 < hi THEN RAdd(a[i], v) ELSE a[i]]

SliceAssign(a, lo, hi, v) ==
    [i \in 1..Len(a) |-> IF lo <= i - 1 /\ i - 1 < hi THEN v ELSE a[i]]

\* lines 174-185 and 194-208: the intervals are written in list order
RECURSIVE RasterTo(_, _, _, _, _, _, _)
RasterTo(starts, stops, vals, k, is_msec, tr, n) ==
    IF k = 0 THEN [i \in 1..n |-> RZero]
    ELSE SliceAssign(RasterTo(starts, stops, vals, k - 1, is_msec, tr, n),
                     StartIdx(starts[k], is_msec, tr),
                     StopIdx(stops[k], is_msec, tr) + 1,
                     vals[k])

Ones(k) == [i \in 1..k |-> ROne]

Min2(a, b) == IF a < b THEN a ELSE b

Boxcar(starts, stops, is_msec, tr, nvols) ==
    RasterTo(starts, stops, Ones(Len(starts)), Min2(Len(starts), Len(stops)),
             is_msec, tr, NTimepointsHires(nvols, tr))

WeightedBoxcar(starts, stops, w, is_msec, tr, nvols) ==
    RasterTo(starts, stops, w, Min2(Min2(Len(starts), Len(stops)), Len(w)),
             is_msec, tr, NTimepointsHires(nvols, tr))

\* scipy.signal.convolve(x, h, mode='full'): sample j (numpy index) is the
\* sum of x[i] * h[j - i] over the i inside both arrays
RECURSIVE ConvSum(_, _, _, _)
ConvSum(x, h, j, i) ==
    IF i < 0 THEN RZero
    ELSE RAdd(ConvSum(x, h, j, i - 1),
              IF i < Len(x) /\ j - i >= 0 /\ j - i < Len(h)
              THEN RMul(x[i + 1], h[j - i + 1]) ELSE RZero)

ConvolveFull(x, h) ==
    [j \in 1..(Len(x) + Len(h) - 1) |-> ConvSum(x, h, j - 1, j - 1)]

\* numpy a[:k]
Take(a, k) == SubSeq(a, 1, Min2(k, Len(a)))

\* faulty variant: mode='same', the centre of the full convolution
ConvolveTrunc_Same(x, h) ==
    SubSeq(ConvolveFull(x, h), (Len(h) - 1) \div 2 + 1, (Len(h) - 1) \div 2 + Len(x))

\* lines 188 and 211
ConvolveTrunc(x, h) == Take(ConvolveFull(x, h), Len(x))

\* scipy.signal.resample_poly(x, up=1, down): n_out = ceil(n / down) samples,
\* output i the zero-phase low-pass FIR (half length 10 * down, unit gain,
\* zero padding) of x at numpy index i * down.  The taps of scipy's Kaiser
\* window are not rational; a triangular window of the same length stands
\* for them.
FirHalfLen(down) == 10 * down

FirTap(k, down) ==
    Rat(FirHalfLen(down) + 1 - Abs(k),
        (FirHalfLen(down) + 1) * (FirHalfLen(down) + 1))

RECURSIVE FirSum(_, _, _, _)
FirSum(x, c, down, i) ==
    IF i = 0 THEN RZero
    ELSE RAdd(FirSum(x, c, down, i - 1),
              IF Abs(i - 1 - c) <= FirHalfLen(down)
              THEN RMul(FirTap(i - 1 - c, down), x[i]) ELSE RZero)

ResamplePoly(x, down) ==
    IF down = 1 THEN x
    ELSE [i \in 1..((Len(x) + down - 1) \div down) |->
             FirSum(x, (i - 1) * down, down, Len(x))]

\* lines 188-190 and 211-212
ConvolveResample(x, h, tr, nvols) ==
    Take(ResamplePoly(ConvolveTrunc(x, h), SamplesPerTR(tr)), nvols)

(***************************************************************************)
(* plot-motion_compute-extended-motion-sdm-fd.py: pure parts.              *)
(*                                                                         *)
(* A motion trace is 6 rows of N values: rows 1-3 translations in mm, rows *)
(* 4-6 rotations in degrees.  A displacement in mm is the pair [mm, arc]   *)
(* that stands for mm + arc * pi / 180, so that deg2mm stays exact.        *)
(***************************************************************************)
NParams == 6
head_radius == 50

\* np.diff(row)
Diff(row) == AsArray([t \in 1..(Len(row) - 1) |-> RSub(row[t + 1], row[t])])

\* line 296: np.insert(np.diff(motion, axis=1), 0, 0, axis=1)
MotionD(motion) == AsArray([i \in 1..Len(motion) |-> <<RZero>> \o Diff(motion[i])])

\* np.square(row)
Square(row) == AsArray([t \in 1..Len(row) |-> RMul(row[t], row[t])])

\* scipy.stats.zscore(row): (row - mean) / std with ddof = 0
zscore(row) == ZScore(row)

\* lines 85-90: name, transformation, postfix
variant_specs ==
    <<[name |-> "zscored", postfix |-> " zscored"],
      [name |-> "derivative", postfix |-> " derivative"],
      [name |-> "squared", postfix |-> " squared"],
      [name |-> "derivative_squared", postfix |-> " derivative_squared"]>>

\* the lambda of variant k applied to (m, d, i)
VariantFunc(k, m, d, i) ==
    IF k = 1 THEN zscore(m[i])
    ELSE IF k = 2 THEN zscore(d[i])
    ELSE IF k = 3 THEN zscore(Square(m[i]))
    ELSE zscore(Square(d[i]))

\* displacements in mm
Mm(x) == [mm |-> x, arc |-> RZero]
MmZero == Mm(RZero)
MmAdd(x, y) == [mm |-> RAdd(x.mm, y.mm), arc |-> RAdd(x.arc, y.arc)]
MmAbs(x) == [mm |-> RAbs(x.mm), arc |-> RAbs(x.arc)]

\* lines 92-98: (deg * math.pi / 180) * head_radius
deg2mm(deg, radius) == [mm |-> RZero, arc |-> RMul(deg, RInt(radius))]

\* 333/106 < pi < 355/113
PiLow == Rat(333, 106)
PiHigh == Rat(355, 113)
\* bounds of the displacement x in mm, for mm >= 0 and arc >= 0
MmLow(x) == RAdd(x.mm, RMul(x.arc, RDiv(PiLow, RInt(180))))
MmHigh(x) == RAdd(x.mm, RMul(x.arc, RDiv(PiHigh, RInt(180))))

\* faulty variant: x >= threshold
MmGt_OrEqual(x, threshold) ==
    RLe(threshold, RAdd(x.mm, RMul(x.arc, RDiv(PiLow, RInt(180)))))

\* x > threshold for a displacement x with mm >= 0 and arc >= 0
MmGt(x, threshold) ==
    RLt(threshold, RAdd(x.mm, RMul(x.arc, RDiv(PiLow, RInt(180)))))

\* faulty variant: the rotations are left in degrees
MotionZero_Degrees(motion, radius) ==
    AsArray([i \in 1..Len(motion) |->
        AsArray([t \in 1..Len(motion[i]) |-> Mm(RSub(motion[i][t], motion[i][1]))])])

\* lines 106-109: motion - motion[:, [0]], rotations converted to mm
MotionZero(motion, radius) ==
    AsArray([i \in 1..Len(motion) |->
        AsArray([t \in 1..Len(motion[i]) |->
            IF i <= 3 THEN Mm(RSub(motion[i][t], motion[i][1]))
            ELSE deg2mm(RSub(motion[i][t], motion[i][1]), radius)])])

\* line 112: column t of np.abs(np.diff(motion_zero, axis=1)), summed over
\* the first k rows
RECURSIVE AbsDiffSum(_, _, _)
AbsDiffSum(mz, t, k) ==
    IF k = 0 THEN MmZero
    ELSE MmAdd(AbsDiffSum(mz, t, k - 1),
               MmAbs([mm |-> RSub(mz[k][t + 1].mm, mz[k][t].mm),
                      arc |-> RSub(mz[k][t + 1].arc, mz[k][t].arc)]))

\* lines 100-117
compute_framewise_displacement(motion, radius) ==
    LET mz == MotionZero(motion, radius)
    IN  <<MmZero>> \o [t \in 1..(Len(motion[1]) - 1) |-> AbsDiffSum(mz, t, Len(mz))]

\* line 369: the volumes (counted from 0) with fd > fd_threshold, ascending
RECURSIVE SpikeVols(_, _, _)
SpikeVols(fd, threshold, n) ==
    IF n = 0 THEN <<>>
    ELSE SpikeVols(fd, threshold, n - 1)
         \o (IF MmGt(fd[n], threshold) THEN <<n - 1>> ELSE <<>>)

\* faulty variant: the colour read as (255 - i*10) % 255
SpikePredictor_Precedence(i, vol, n) ==
    [ValuesOfPredictor |-> [t \in 1..n |-> IF t - 1 = vol THEN 1 ELSE 0],
     NameOfPredictor |-> "Spike_" \o ToString(vol + 1),
     ColorOfPredictor |-> <<(255 - (i * 10)) % 255, 0, 0>>]

\* lines 373-379: the predictor of the i-th spike (i from 0) at volume vol
SpikePredictor(i, vol, n) ==
    [ValuesOfPredictor |-> [t \in 1..n |-> IF t - 1 = vol THEN 1 ELSE 0],
     NameOfPredictor |-> "Spike_" \o ToString(vol + 1),
     ColorOfPredictor |-> <<255 - ((i * 10) % 255), 0, 0>>]

\* lines 371-379
SpikesSdm(fd, threshold) ==
    LET vols == SpikeVols(fd, threshold, Len(fd))
    IN  [i \in 1..Len(vols) |-> SpikePredictor(i - 1, vols[i], Len(fd))]

\* scipy.signal.detrend(row): the residual of the least-squares line
Detrend(row) ==
    LET n == Len(row)
        xbar == RMean(row)
        tbar == Rat(n + 1, 2)
        dt == AsArray([t \in 1..n |-> RSub(RInt(t), tbar)])
        stt == RSum(AsArray([t \in 1..n |-> RMul(dt[t], dt[t])]))
        sxt == RSum(AsArray([t \in 1..n |-> RMul(dt[t], RSub(row[t], xbar))]))
        slope == IF n = 1 THEN RZero ELSE RDiv(sxt, stt)
    IN  AsArray([t \in 1..n |-> RSub(RSub(row[t], xbar), RMul(slope, dt[t]))])

\* line 396: detrending is linear, so it acts on the mm part and on the arc
\* part of a row alike; the result is kept as absolute values
DetrendedAbs(mm_rows) ==
    AsArray([i \in 1..Len(mm_rows) |->
        LET n == Len(mm_rows[i])
            a == Detrend(AsArray([t \in 1..n |-> mm_rows[i][t].mm]))
            b == Detrend(AsArray([t \in 1..n |-> mm_rows[i][t].arc]))
        IN  AsArray([t \in 1..n |-> [mm |-> RAbs(a[t]), arc |-> RAbs(b[t])]])])

\* line 397: np.sqrt(np.sum(np.square(.), axis=0)) at volume t lies between
\* the largest and the sum of the absolute values of the column
RECURSIVE NormLow(_, _, _)
NormLow(det, t, k) ==
    IF k = 0 THEN RZero ELSE RMax2(NormLow(det, t, k - 1), MmLow(det[k][t]))
RECURSIVE NormHigh(_, _, _)
NormHigh(det, t, k) ==
    IF k = 0 THEN RZero ELSE RAdd(NormHigh(det, t, k - 1), MmHigh(det[k][t]))

\* lines 393-397: bounds of rms; lo = hi when at most one parameter, a
\* translation, has a residual at each volume
RmsBounds(motion, radius) ==
    LET det == DetrendedAbs(MotionZero(motion, radius))
        n == Len(motion[1])
    IN  [lo |-> RMean(AsArray([t \in 1..n |-> NormLow(det, t, Len(det))])),
         hi |-> RMean(AsArray([t \in 1..n |-> NormHigh(det, t, Len(det))]))]

Green == <<RZero, Rat(3, 5), RZero>>
YellowOrange == <<Rat(17, 20), Rat(13, 20), RZero>>
Red == <<Rat(4, 5), RZero, RZero>>

\* faulty variant: the boundaries belong to the lower bands
rms_color_Inclusive(x) ==
    IF RLe(x, Rat(1, 5)) THEN Green
    ELSE IF RLe(x, Rat(1, 2)) THEN YellowOrange
    ELSE Red

\* lines 404-409
rms_color_of(x) ==
    IF RLt(x, Rat(1, 5)) THEN Green
    ELSE IF RLt(x, Rat(1, 2)) THEN YellowOrange
    ELSE Red

\* the colours that lines 404-409 can give for an rms within the bounds r
Bands(r) ==
    {rms_color_of(r.lo), rms_color_of(r.hi)}
    \cup (IF rms_color_of(r.lo) = Green /\ rms_color_of(r.hi) = Red
          THEN {YellowOrange} ELSE {})

(***************************************************************************)
(* State.                                                                  *)
(***************************************************************************)
VARIABLES
    pc,                     \* position in the script / call
    error,                  \* "none", or the exception that ended the run
    \* CONFIGURATION block of read_prt_write_sdm.py
    define_para_sdm, standardize_weights, RestCondInPRT, RestCondNumber,
    ScalePred1,
    \* inputs: the protocol and the functional run
    prt_header, prt_data, TR, n_vols,
    \* twogamma_hrf: arguments of the call and the kernel
    hrf_args, hrf,
    \* main loop
    cond, add_parametric_predictor, weights,
    pred_block_hires, pred_conv_hires, pred_conv,
    pred_weights_hires, pred_weights_conv_hires, pred_weights_conv,
    \* the design and what is saved
    sdm_data, sdm_header,
    \* create_weights as a call: its arguments (the result is weights)
    weights_args,
    \* CONFIGURATION block of the motion script
    model_type, fd_threshold, USE_CARPET, USE_PRT, PLOTTING,
    \* motion script: the files of the batch, one entry per (subject,
    \* session, run), and the number of runs done
    run_files, run,
    \* motion script: the names of the run loop (sdm_header and sdm_data
    \* hold what read_sdm returned)
    errors, carpet_available, prt_available, motion, motion_d,
    combined_model, fd, n_spikes,
    \* motion script: bounds of the RMS displacement of the run, its legend
    \* colour, and every create_motion_plot call
    rms, rms_color, plots,
    \* motion script: every write_sdm call, and the final summary
    written, summary,
    \* CONFIGURATION block of preprocess_fmr.py
    options, pipeline_order,
    \* preprocess_fmr.py: for every run of the batch whether a starting file
    \* is found, the number of runs done, and the number of entries of
    \* pipeline_order the step loop is done with
    run_inputs, prep_run, step,
    \* preprocess_fmr.py: the names of the loops, the lines of the log file,
    \* every call of a BrainVoyager preprocessing step, and what the final
    \* summary prints
    current_file, all_errors, log, calls, prep_summary,
    \* read_prt_write_tsv.py: the rows handed to np.savetxt
    rows

cfgVars == <<define_para_sdm, standardize_weights, RestCondInPRT,
             RestCondNumber, ScalePred1>>
runVars == <<TR, n_vols>>
prtVars == <<prt_header, prt_data>>
boxVars == <<add_parametric_predictor, weights, pred_block_hires>>
convVars == <<pred_conv_hires, pred_conv>>
paraVars == <<pred_weights_hires, pred_weights_conv_hires, pred_weights_conv>>
sdmVars == <<sdm_data, sdm_header>>
\* state of the other programs of the repository
motionCfg == <<model_type, fd_threshold, USE_CARPET, USE_PRT, PLOTTING>>
motionRun == <<carpet_available, prt_available, motion, motion_d,
               combined_model, fd, n_spikes>>
rmsVars == <<rms, rms_color, plots>>
motionVars == <<motionCfg, run_files, run, errors, motionRun, rmsVars, written,
                summary>>
prepVars == <<options, pipeline_order, run_inputs, prep_run, step, current_file,
              all_errors, log, calls, prep_summary>>
otherVars == <<weights_args, motionVars, prepVars, rows>>
vars == <<pc, error, cfgVars, runVars, prtVars, hrf_args, hrf, cond, boxVars,
          convVars, paraVars, sdmVars, otherVars>>


(***************************************************************************)
(* Inputs.                                                                 *)
(***************************************************************************)
MaxSubs == 2
MaxIntervals == 2
MaxConds == 2

SeqsUpTo(S, n) == UNION {[1..k -> S] : k \in 0..n}

\* gamma densities on the kernel grid, peak:undershoot ratios
PosVals == {RZero, Rat(1, 20000), Rat(1, 10000), Rat(1, 100), Rat(1, 2)}
NegVals == {RZero, Rat(3, 50)}
RatioVals == {RZero, Rat(1, 2000), Rat(1, 1000), RInt(6)}
DefaultRatio == RInt(6)

HrfArgs ==
    UNION {[posG : [1..k -> PosVals], negG : [1..k -> NegVals],
            ratio : RatioVals, ScaleToOne : BOOLEAN, DivideBySum : BOOLEAN]
           : k \in 1..MaxSubs}

\* the kernels of the main script: twogamma_hrf() with its defaults
MainGammas ==
    {[posG |-> <<RInt(3), RInt(3), RInt(1)>>, negG |-> <<RZero, RInt(6), RZero>>]}

MainHrfArgs ==
    {[posG |-> g.posG, negG |-> g.negG, ratio |-> DefaultRatio,
      ScaleToOne |-> FALSE, DivideBySum |-> TRUE] : g \in MainGammas}

\* interval times: milliseconds, and 1-based volumes
TimesMs == {0, 18, 40}
TimesVol == {1, 2, 3}
ResolutionKinds == {"msec", "Volumes"}
TimesOf(kind) == IF kind = "msec" THEN TimesMs ELSE TimesVol

\* parametric weights of k intervals: all equal, or ascending
WeightVecs(k) == {[i \in 1..k |-> RInt(1)], [i \in 1..k |-> RInt(i)]}

Intervals(kind) ==
    {iv \in TimesOf(kind) \X TimesOf(kind) : iv[1] <= iv[2]}

CondNames == <<"A", "B", "C", "D">>
CondColors == <<<<255, 0, 0>>, <<0, 255, 0>>, <<0, 0, 255>>, <<9, 9, 9>>>>

\* a condition of the protocol as bvbabel.prt.read_prt returns it
Condition(i, ivs, w) ==
    [NameOfCondition |-> CondNames[i], Color |-> CondColors[i],
     Time_start |-> [j \in 1..Len(ivs) |-> ivs[j][1]],
     Time_stop |-> [j \in 1..Len(ivs) |-> ivs[j][2]],
     Parametric_weight |-> w]

\* every condition of up to MaxIntervals intervals
AllConditions(i, kind) ==
    {Condition(i, ivs, w) :
        <<ivs, w>> \in UNION {{<<x, y>> : y \in WeightVecs(Len(x))}
                              : x \in SeqsUpTo(Intervals(kind), MaxIntervals)}}

\* the conditions of the multi-condition protocols: none, one, two intervals
DocIntervals(kind) ==
    IF kind = "msec"
    THEN {<<>>, <<<<0, 18>>>>, <<<<0, 18>>, <<18, 40>>>>}
    ELSE {<<>>, <<<<1, 2>>>>, <<<<1, 1>>, <<3, 3>>>>}

\* their weights ascend; two intervals may also have equal weights
DocWeights(n) == IF n = 2 THEN WeightVecs(n) ELSE {[j \in 1..n |-> RInt(j)]}

DocConditions(i, kind) ==
    UNION {{Condition(i, ivs, w) : w \in DocWeights(Len(ivs))}
           : ivs \in DocIntervals(kind)}

\* conditions after the second have one interval
Protocols(kind) ==
    UNION {{p \in [1..k -> UNION {DocConditions(i, kind) : i \in 1..k}] :
               \A i \in 1..k :
                  /\ p[i].NameOfCondition = CondNames[i]
                  /\ i > 2 => Len(p[i].Time_start) = 1}
           : k \in 0..MaxConds}

\* prt_header: with or without the ParametricWeights entry
Headers(kind, n) ==
    {[ResolutionOfTime |-> kind, NrOfConditions |-> n]}
    \cup {[ResolutionOfTime |-> kind, NrOfConditions |-> n, ParametricWeights |-> v]
          : v \in {0, 1}}

\* (TR in ms, number of volumes)
DocRuns == {<<10, 3>>, <<10, 29>>, <<5, 2>>}
CondRuns == {<<10, 3>>, <<20, 3>>, <<25, 2>>, <<29, 1>>}

StandardizeModes == {0, 1, 2}

\* the CONFIGURATION block; an option that the run never reads keeps the
\* value the script ships with
Configs(header) ==
    {c \in [define_para_sdm : BOOLEAN, standardize_weights : StandardizeModes,
            RestCondInPRT : BOOLEAN, RestCondNumber : {0, -1},
            ScalePred1 : BOOLEAN] :
        /\ ~c.RestCondInPRT => c.RestCondNumber = 0
        /\ ("ParametricWeights" \notin DOMAIN header \/ header.ParametricWeights # 1)
              => c.define_para_sdm
        /\ ~("ParametricWeights" \in DOMAIN header /\ header.ParametricWeights = 1
             /\ c.define_para_sdm) => c.standardize_weights = 0
        /\ c.standardize_weights # 0 => (~c.RestCondInPRT /\ ~c.ScalePred1)}

(***************************************************************************)
(* The main script, lines 143-248.                                         *)
(***************************************************************************)
prt_is_msec == prt_header.ResolutionOfTime = "msec"

IdleLoop ==
    /\ cond = 0
    /\ add_parametric_predictor = Unbound
    /\ weights = Unbound
    /\ pred_block_hires = Unbound
    /\ pred_conv_hires = Unbound
    /\ pred_conv = Unbound
    /\ pred_weights_hires = Unbound
    /\ pred_weights_conv_hires = Unbound
    /\ pred_weights_conv = Unbound
    /\ sdm_data = Unbound
    /\ sdm_header = Unbound

\* the other programs are not running
IdleMotion ==
    /\ model_type = "12"
    /\ fd_threshold = Rat(1, 5)
    /\ USE_CARPET = TRUE
    /\ USE_PRT = TRUE
    /\ PLOTTING = TRUE
    /\ run_files = <<>>
    /\ run = 0
    /\ errors = Unbound
    /\ carpet_available = Unbound
    /\ prt_available = Unbound
    /\ motion = Unbound
    /\ motion_d = Unbound
    /\ combined_model = Unbound
    /\ fd = Unbound
    /\ n_spikes = Unbound
    /\ rms = Unbound
    /\ rms_color = Unbound
    /\ plots = <<>>
    /\ written = <<>>
    /\ summary = Unbound

IdlePrep ==
    /\ options = <<>>
    /\ pipeline_order = <<>>
    /\ run_inputs = <<>>
    /\ prep_run = 0
    /\ step = 0
    /\ current_file = Unbound
    /\ all_errors = <<>>
    /\ log = <<>>
    /\ calls = <<>>
    /\ prep_summary = Unbound

IdleTsv == rows = Unbound

IdleOther == weights_args = Unbound /\ IdleMotion /\ IdlePrep /\ IdleTsv

\* the state when the script reaches line 143
InitMain(kinds, runs, gammas, single) ==
    /\ pc = "hrf"
    /\ error = "none"
    /\ \E kind \in kinds :
         /\ prt_data \in (IF single THEN {<<c>> : c \in AllConditions(1, kind)}
                          ELSE Protocols(kind))
         /\ prt_header \in (IF single
                            THEN {h \in Headers(kind, 1) : "ParametricWeights" \in DOMAIN h}
                            ELSE Headers(kind, Len(prt_data)))
    /\ \E c \in Configs(prt_header) :
         /\ single => (~c.RestCondInPRT /\ ~c.ScalePred1 /\ c.standardize_weights = 0)
         /\ define_para_sdm = c.define_para_sdm
         /\ standardize_weights = c.standardize_weights
         /\ RestCondInPRT = c.RestCondInPRT
         /\ RestCondNumber = c.RestCondNumber
         /\ ScalePred1 = c.ScalePred1
    /\ \E r \in runs : TR = r[1] /\ n_vols = r[2]
    /\ hrf_args \in gammas
    /\ hrf = Unbound
    /\ IdleLoop
    /\ IdleOther

\* line 144: hrf, fs = twogamma_hrf()
ComputeHrf ==
    /\ pc = "hrf"
    /\ UNCHANGED otherVars
    /\ hrf' = twogamma_hrf(hrf_args.posG, hrf_args.negG, hrf_args.ratio,
                           hrf_args.ScaleToOne, hrf_args.DivideBySum).hrf
    /\ pc' = "rest"
    /\ UNCHANGED <<error, cfgVars, runVars, prtVars, hrf_args, cond, boxVars,
                   convVars, paraVars, sdmVars>>

\* del a[k] for k = 0 or k = -1
DelAt(a, k) ==
    IF k = 0 THEN Tail(a) ELSE SubSeq(a, 1, Len(a) - 1)

\* lines 150-155
DeleteRest ==
    /\ pc = "rest"
    /\ UNCHANGED otherVars
    /\ IF RestCondInPRT /\ prt_data = <<>>
       THEN /\ error' = "IndexError"
            /\ pc' = "aborted"
            /\ UNCHANGED <<prtVars, sdm_data>>
       ELSE /\ IF RestCondInPRT
               THEN /\ prt_data' = DelAt(prt_data, RestCondNumber)
                    /\ prt_header' = [prt_header EXCEPT
                                         !.NrOfConditions = prt_header.NrOfConditions - 1]
               ELSE UNCHANGED prtVars
            /\ sdm_data' = <<>>
            /\ pc' = "loop"
            /\ UNCHANGED error
    /\ UNCHANGED <<cfgVars, runVars, hrf_args, hrf, cond, boxVars, convVars,
                   paraVars, sdm_header>>

\* faulty variant: constant weights give a parametric predictor too
AddParametric_Constant(header, c) ==
    /\ "ParametricWeights" \in DOMAIN header
    /\ header.ParametricWeights = 1
    /\ define_para_sdm
    /\ Len(c.Parametric_weight) > 0

\* faulty variant: the number of weights is tested, not of distinct weights
AddParametric_Length(header, c) ==
    /\ "ParametricWeights" \in DOMAIN header
    /\ header.ParametricWeights = 1
    /\ define_para_sdm
    /\ Len(c.Parametric_weight) > 1

\* lines 159-165
AddParametric(header, c) ==
    /\ "ParametricWeights" \in DOMAIN header
    /\ header.ParametricWeights = 1
    /\ define_para_sdm
    /\ Cardinality({c.Parametric_weight[i] : i \in 1..Len(c.Parametric_weight)}) > 1

\* faulty variant: the dense array still holds the previous condition
Rasterize_Carry ==
    /\ pc = "loop"
    /\ UNCHANGED otherVars
    /\ cond < Len(prt_data)
    /\ LET c == prt_data[cond + 1]
           add == AddParametric(prt_header, c)
           before == IF cond = 0 THEN [Time_start |-> <<>>, Time_stop |-> <<>>]
                     ELSE prt_data[cond]
           nb == Min2(Len(before.Time_start), Len(before.Time_stop))
       IN  /\ add_parametric_predictor' = add
           /\ weights' = IF add
                         THEN create_weights(c.Parametric_weight, standardize_weights)
                         ELSE weights
           /\ pred_block_hires' =
                 Boxcar(SubSeq(before.Time_start, 1, nb) \o c.Time_start,
                        SubSeq(before.Time_stop, 1, nb) \o c.Time_stop,
                        prt_is_msec, TR, n_vols)
    /\ pc' = "conv"
    /\ UNCHANGED <<error, cfgVars, runVars, prtVars, hrf_args, hrf, cond,
                   convVars, paraVars, sdmVars>>

\* lines 157-185: the next condition, its weights and its boxcar
Rasterize ==
    /\ pc = "loop"
    /\ UNCHANGED otherVars
    /\ cond < Len(prt_data)
    /\ LET c == prt_data[cond + 1]
           add == AddParametric(prt_header, c)
       IN  /\ add_parametric_predictor' = add
           /\ weights' = IF add
                         THEN create_weights(c.Parametric_weight, standardize_weights)
                         ELSE weights
           /\ pred_block_hires' = Boxcar(c.Time_start, c.Time_stop, prt_is_msec,
                                         TR, n_vols)
    /\ pc' = "conv"
    /\ UNCHANGED <<error, cfgVars, runVars, prtVars, hrf_args, hrf, cond,
                   convVars, paraVars, sdmVars>>

\* lines 188-190; resample_poly raises ValueError for down < 1
Convolve ==
    /\ pc = "conv"
    /\ UNCHANGED otherVars
    /\ pred_conv_hires' = ConvolveTrunc(pred_block_hires, hrf)
    /\ IF SamplesPerTR(TR) < 1
       THEN /\ error' = "ValueError"
            /\ pc' = "aborted"
            /\ UNCHANGED pred_conv
       ELSE /\ pred_conv' = ConvolveResample(pred_block_hires, hrf, TR, n_vols)
            /\ pc' = IF add_parametric_predictor THEN "para" ELSE "append"
            /\ UNCHANGED error
    /\ UNCHANGED <<cfgVars, runVars, prtVars, hrf_args, hrf, cond, boxVars,
                   paraVars, sdmVars>>

\* Weights standardized with mode 2 are dev / sqrt(var) with one var for
\* all of them.  Rasterizing, convolving and resampling are linear in the
\* weights, so lines 193-212 are computed on the numerators dev and every
\* sample of the result is again kept as dev / sqrt(var); with var = 0 the
\* weights are NaN.  Modes 0 and 1 give plain numbers.
Numerators(w) ==
    IF standardize_weights = 2 THEN AsArray([i \in 1..Len(w) |-> w[i].dev]) ELSE w
OverStd(a, w) ==
    IF standardize_weights = 2
    THEN AsArray([t \in 1..Len(a) |-> [dev |-> a[t], var |-> w[1].var]])
    ELSE a

\* lines 193-212
Parametric ==
    /\ pc = "para"
    /\ UNCHANGED otherVars
    /\ LET c == prt_data[cond + 1]
           w == WeightedBoxcar(c.Time_start, c.Time_stop, Numerators(weights),
                               prt_is_msec, TR, n_vols)
       IN  /\ pred_weights_hires' = OverStd(w, weights)
           /\ pred_weights_conv_hires' = OverStd(ConvolveTrunc(w, hrf), weights)
           /\ pred_weights_conv' = OverStd(ConvolveResample(w, hrf, TR, n_vols),
                                           weights)
    /\ pc' = "append"
    /\ UNCHANGED <<error, cfgVars, runVars, prtVars, hrf_args, hrf, cond, boxVars,
                   convVars, sdmVars>>

Predictor(name, color, values) ==
    [NameOfPredictor |-> name, ColorOfPredictor |-> color,
     ValuesOfPredictor |-> values]

\* lines 216-235
AppendPredictors ==
    /\ pc = "append"
    /\ UNCHANGED otherVars
    /\ LET c == prt_data[cond + 1]
           scaled == IF ScalePred1 THEN ArrDiv(pred_conv, RMaxOf(pred_conv))
                     ELSE pred_conv
       IN  sdm_data' =
             IF add_parametric_predictor
             THEN sdm_data
                  \o <<Predictor(c.NameOfCondition \o " [Main]", c.Color, scaled),
                       Predictor(c.NameOfCondition \o " [Parametric]", c.Color,
                                 pred_weights_conv)>>
             ELSE Append(sdm_data, Predictor(c.NameOfCondition, c.Color, scaled))
    /\ pred_block_hires' = Unbound
    /\ pred_conv_hires' = Unbound
    /\ pred_conv' = Unbound
    /\ IF add_parametric_predictor
       THEN /\ pred_weights_hires' = Unbound
            /\ pred_weights_conv_hires' = Unbound
            /\ pred_weights_conv' = Unbound
            /\ weights' = Unbound
       ELSE UNCHANGED <<paraVars, weights>>
    /\ cond' = cond + 1
    /\ pc' = "loop"
    /\ UNCHANGED <<error, cfgVars, runVars, prtVars, hrf_args, hrf,
                   add_parametric_predictor, sdm_header>>

\* faulty variant: the constant is put in front of the predictors
AddConstant_First ==
    /\ pc = "loop"
    /\ UNCHANGED otherVars
    /\ cond = Len(prt_data)
    /\ sdm_data' = <<Predictor("Constant", <<255, 255, 255>>, Ones(n_vols))>>
                        \o sdm_data
    /\ pc' = "header"
    /\ UNCHANGED <<error, cfgVars, runVars, prtVars, hrf_args, hrf, cond, boxVars,
                   convVars, paraVars, sdm_header>>

\* lines 237-241
AddConstant ==
    /\ pc = "loop"
    /\ UNCHANGED otherVars
    /\ cond = Len(prt_data)
    /\ sdm_data' = Append(sdm_data,
                          Predictor("Constant", <<255, 255, 255>>, Ones(n_vols)))
    /\ pc' = "header"
    /\ UNCHANGED <<error, cfgVars, runVars, prtVars, hrf_args, hrf, cond, boxVars,
                   convVars, paraVars, sdm_header>>

\* faulty variant: the header counts one predictor per condition
SaveSdm_PerCondition ==
    /\ pc = "header"
    /\ UNCHANGED otherVars
    /\ sdm_header' = [FileVersion |-> 1, NrOfPredictors |-> Len(prt_data) + 1,
                      NrOfDataPoints |-> n_vols, IncludesConstant |-> 1,
                      FirstConfoundPredictor |-> Len(prt_data) + 1]
    /\ pc' = "done"
    /\ UNCHANGED <<error, cfgVars, runVars, prtVars, hrf_args, hrf, cond, boxVars,
                   convVars, paraVars, sdm_data>>

\* lines 243-248
SaveSdm ==
    /\ pc = "header"
    /\ UNCHANGED otherVars
    /\ sdm_header' = [FileVersion |-> 1, NrOfPredictors |-> Len(sdm_data),
                      NrOfDataPoints |-> n_vols, IncludesConstant |-> 1,
                      FirstConfoundPredictor |-> Len(sdm_data)]
    /\ pc' = "done"
    /\ UNCHANGED <<error, cfgVars, runVars, prtVars, hrf_args, hrf, cond, boxVars,
                   convVars, paraVars, sdm_data>>

NextSdm ==
    \/ ComputeHrf
    \/ DeleteRest
    \/ Rasterize
    \/ Convolve
    \/ Parametric
    \/ AppendPredictors
    \/ AddConstant
    \/ SaveSdm

\* whole documents: protocols of up to MaxConds conditions
InitSdm == InitMain(ResolutionKinds, DocRuns, MainHrfArgs, FALSE)
SpecSdm == InitSdm /\ [][NextSdm]_vars

\* one condition, every list of up to MaxIntervals intervals
InitCond == InitMain(ResolutionKinds, CondRuns, MainHrfArgs, TRUE)
SpecCond == InitCond /\ [][NextSdm]_vars

(***************************************************************************)
(* twogamma_hrf as a call: every argument combination.                     *)
(***************************************************************************)
InitHrf ==
    /\ pc = "call"
    /\ error = "none"
    /\ hrf_args \in HrfArgs
    /\ hrf = Unbound
    /\ define_para_sdm = TRUE
    /\ standardize_weights = 0
    /\ RestCondInPRT = FALSE
    /\ RestCondNumber = 0
    /\ ScalePred1 = FALSE
    /\ prt_header = Unbound
    /\ prt_data = Unbound
    /\ TR = 0
    /\ n_vols = 0
    /\ IdleLoop
    /\ IdleOther

Call_twogamma_hrf ==
    /\ pc = "call"
    /\ UNCHANGED otherVars
    /\ hrf' = twogamma_hrf(hrf_args.posG, hrf_args.negG, hrf_args.ratio,
                           hrf_args.ScaleToOne, hrf_args.DivideBySum)
    /\ pc' = "return"
    /\ UNCHANGED <<error, cfgVars, runVars, prtVars, hrf_args, cond, boxVars,
                   convVars, paraVars, sdmVars>>

NextHrf == Call_twogamma_hrf

SpecHrf == InitHrf /\ [][NextHrf]_vars

(***************************************************************************)
(* create_weights as a call: every weight vector and mode.                 *)
(***************************************************************************)
MaxWeights == 3
WeightVals == {RInt(0), RInt(1), RInt(2), RInt(3)}
WeightModes == {0, 1, 2, 3}
WeightsArgs == [a : SeqsUpTo(WeightVals, MaxWeights) \ {<<>>}, b : WeightModes]

InitWeights ==
    /\ pc = "call_weights"
    /\ error = "none"
    /\ weights_args \in WeightsArgs
    /\ hrf_args = Unbound
    /\ hrf = Unbound
    /\ define_para_sdm = TRUE
    /\ standardize_weights = 0
    /\ RestCondInPRT = FALSE
    /\ RestCondNumber = 0
    /\ ScalePred1 = FALSE
    /\ prt_header = Unbound
    /\ prt_data = Unbound
    /\ TR = 0
    /\ n_vols = 0
    /\ IdleLoop
    /\ IdleMotion
    /\ IdlePrep
    /\ IdleTsv

\* lines 75-88; return(weights) of an unbound local raises UnboundLocalError
Call_create_weights ==
    /\ pc = "call_weights"
    /\ IF weights_args.b \in {0, 1, 2}
       THEN /\ weights' = create_weights(weights_args.a, weights_args.b)
            /\ pc' = "return_weights"
            /\ UNCHANGED error
       ELSE /\ error' = "UnboundLocalError"
            /\ pc' = "aborted"
            /\ UNCHANGED weights
    /\ UNCHANGED <<cfgVars, runVars, prtVars, hrf_args, hrf, cond,
                   add_parametric_predictor, pred_block_hires, convVars,
                   paraVars, sdmVars, weights_args, motionVars, prepVars, rows>>

NextWeights == Call_create_weights

SpecWeights == InitWeights /\ [][NextWeights]_vars

(***************************************************************************)
(* plot-motion_compute-extended-motion-sdm-fd.py: inputs.                  *)
(***************************************************************************)
MaxVols == 6
MaxRuns == 2

MotionNames == <<"TX", "TY", "TZ", "RX", "RY", "RZ">>
MotionColors == <<<<255, 0, 0>>, <<0, 255, 0>>, <<0, 0, 255>>,
                  <<255, 255, 0>>, <<255, 0, 255>>, <<0, 255, 255>>>>

\* a trace is piecewise constant: row i rests at Baseline(i), and a step
\* [p, v, s] raises row p by s from volume v (counted from 0) on
Baseline(i) == Rat(i - 1, 4)
StepSizes == {Rat(1, 2), RInt(1), RInt(-1)}
Steps(n) == [p : 1..NParams, v : 1..(n - 1), s : StepSizes]
FirstStep == [p |-> 1, v |-> 1, s |-> RInt(1)]

RECURSIVE StepSum(_, _, _, _)
StepSum(steps, k, i, t) ==
    IF k = 0 THEN RZero
    ELSE RAdd(StepSum(steps, k - 1, i, t),
              IF steps[k].p = i /\ t >= steps[k].v THEN steps[k].s ELSE RZero)

TraceOf(n, steps) ==
    [i \in 1..NParams |->
        [t \in 1..n |-> RAdd(Baseline(i), StepSum(steps, Len(steps), i, t - 1))]]

\* no step, one step, or a second step upwards after FirstStep
StepLists(n) ==
    {<<>>} \cup {<<st>> : st \in Steps(n)}
           \cup {<<FirstStep, st>> : st \in {x \in Steps(n) : RLt(RZero, x.s)}}
Traces == {TraceOf(MaxVols, sl) : sl \in StepLists(MaxVols)}

\* traces in which every parameter moves at every volume
Wiggle(k) ==
    [i \in 1..NParams |->
        [t \in 1..MaxVols |-> Rat(((t + k) * (t + i)) % (i + 6), 4)]]
WiggleTraces == {Wiggle(k) : k \in 0..2}

\* traces with a known RMS displacement c: TX leaves its baseline by
\* c * n / 4 in the pattern + - - + over the first four volumes, which has
\* no mean and no trend, and nothing else moves
RmsLevels == {Rat(1, 10), Rat(1, 5), Rat(3, 10), Rat(1, 2), Rat(3, 4)}
Swing(c, n) ==
    [i \in 1..NParams |->
        [t \in 1..n |->
            IF i = 1 /\ t <= 4
            THEN RAdd(Baseline(i),
                      RMul(RMul(c, Rat(n, 4)), IF t \in {1, 4} THEN ROne ELSE RNeg(ROne)))
            ELSE Baseline(i)]]
SwingTraces == {Swing(c, MaxVols) : c \in RmsLevels}

\* what bvbabel.sdm.read_sdm returns for a *_3DMC.sdm file
MotionDoc(trace) ==
    [header |-> [FileVersion |-> 1, NrOfPredictors |-> NParams,
                 NrOfDataPoints |-> Len(trace[1]), IncludesConstant |-> 0,
                 FirstConfoundPredictor |-> 1],
     data |-> [i \in 1..NParams |->
                  [NameOfPredictor |-> MotionNames[i],
                   ColorOfPredictor |-> MotionColors[i],
                   ValuesOfPredictor |-> trace[i]]]]

\* the files of one run: whether the motion SDM, the FMR and the PRT exist,
\* and what the motion SDM holds
NoDoc ==
    [header |-> [FileVersion |-> 0, NrOfPredictors |-> 0, NrOfDataPoints |-> 0,
                 IncludesConstant |-> 0, FirstConfoundPredictor |-> 0],
     data |-> <<>>]

\* session_start: the run is the first of its (subject, session);
\* dir_exists: the session folder, which holds the log and func/, exists
RunFiles(doc, fmr, prt) ==
    [motion_exists |-> TRUE, motion_file |-> doc, fmr_exists |-> fmr,
     prt_exists |-> prt, session_start |-> TRUE, dir_exists |-> TRUE]

MissingRun ==
    [motion_exists |-> FALSE, motion_file |-> NoDoc, fmr_exists |-> TRUE,
     prt_exists |-> TRUE, session_start |-> TRUE, dir_exists |-> TRUE]

\* a run of a session that has no folder at all
MissingSession ==
    [motion_exists |-> FALSE, motion_file |-> NoDoc, fmr_exists |-> FALSE,
     prt_exists |-> TRUE, session_start |-> TRUE, dir_exists |-> FALSE]

RichBatches == {<<RunFiles(MotionDoc(tr), TRUE, TRUE)>> : tr \in Traces}
WiggleBatches ==
    {<<RunFiles(MotionDoc(tr), TRUE, TRUE)>> : tr \in WiggleTraces \cup SwingTraces}

RunCatalogue ==
    {MissingRun,
     RunFiles(MotionDoc(TraceOf(2, <<>>)), FALSE, TRUE),
     RunFiles(MotionDoc(TraceOf(2, <<[p |-> 4, v |-> 1, s |-> RInt(1)]>>)), TRUE, FALSE)}

\* the runs of the catalogue as first or as later run of a session
SessionRuns ==
    RunCatalogue \cup {[r EXCEPT !.session_start = FALSE] : r \in RunCatalogue}
                 \cup {MissingSession}
CatalogueBatches ==
    {b \in SeqsUpTo(SessionRuns, MaxRuns) :
        /\ b # <<>> => b[1].session_start
        /\ \A k \in 2..Len(b) : ~b[k].session_start => b[k - 1].dir_exists}

ModelTypes == {"12", "18", "24"}
BadModelTypes == {"6"}
\* lines 61-80: the values the script is shipped with
DefaultModelType == "12"
DefaultThreshold == Rat(1, 5)
Thresholds == {DefaultThreshold, Rat(1, 2)}

(***************************************************************************)
(* plot-motion_compute-extended-motion-sdm-fd.py: MAIN PROCESSING.         *)
(***************************************************************************)
InitMotion ==
    /\ pc = "assert"
    /\ error = "none"
    /\ \/ /\ run_files \in RichBatches
          /\ model_type = DefaultModelType
          /\ fd_threshold \in Thresholds
          /\ USE_CARPET = TRUE /\ USE_PRT = TRUE
          /\ PLOTTING = TRUE
       \/ /\ run_files \in WiggleBatches
          /\ model_type \in ModelTypes
          /\ fd_threshold = DefaultThreshold
          /\ USE_CARPET = TRUE /\ USE_PRT = TRUE
          /\ PLOTTING \in BOOLEAN
       \/ /\ run_files \in CatalogueBatches
          /\ model_type \in {DefaultModelType} \cup BadModelTypes
          /\ fd_threshold = DefaultThreshold
          /\ USE_CARPET \in BOOLEAN /\ USE_PRT \in BOOLEAN
          /\ PLOTTING = TRUE
    /\ run = 0
    /\ errors = Unbound
    /\ carpet_available = Unbound
    /\ prt_available = Unbound
    /\ motion = Unbound
    /\ motion_d = Unbound
    /\ combined_model = Unbound
    /\ fd = Unbound
    /\ n_spikes = Unbound
    /\ rms = Unbound
    /\ rms_color = Unbound
    /\ plots = <<>>
    /\ written = <<>>
    /\ summary = Unbound
    /\ weights_args = Unbound
    /\ hrf_args = Unbound
    /\ hrf = Unbound
    /\ define_para_sdm = TRUE
    /\ standardize_weights = 0
    /\ RestCondInPRT = FALSE
    /\ RestCondNumber = 0
    /\ ScalePred1 = FALSE
    /\ prt_header = Unbound
    /\ prt_data = Unbound
    /\ TR = 1000
    /\ n_vols = 0
    /\ IdleLoop
    /\ IdlePrep
    /\ IdleTsv

\* the names of the other scripts that the motion script does not have
sdmOnly == <<cfgVars, runVars, prtVars, hrf_args, hrf, cond, boxVars, convVars,
             paraVars, weights_args, prepVars, rows>>

\* lines 217-232: the session loop is entered before the first run of a
\* session, the run loop before every run
NextPc(r) ==
    IF r < Len(run_files) /\ run_files[r + 1].session_start THEN "session" ELSE "run"

\* lines 214-215
CheckModelType ==
    /\ pc = "assert"
    /\ errors' = <<>>
    /\ IF model_type \in {"12", "18", "24"}
       THEN pc' = NextPc(0) /\ UNCHANGED error
       ELSE pc' = "aborted" /\ error' = "AssertionError"
    /\ UNCHANGED <<sdmOnly, rmsVars, sdmVars, motionCfg, run_files, run, motionRun,
                   written, summary>>

ErrorMsg(what, r) == <<"ERROR: Could not find " \o what, r>>

\* lines 219-229: the log of the session is opened in the session folder;
\* open() raises FileNotFoundError when the folder does not exist
StartSession ==
    /\ pc = "session"
    /\ IF run_files[run + 1].dir_exists
       THEN pc' = "run" /\ UNCHANGED error
       ELSE pc' = "aborted" /\ error' = "FileNotFoundError"
    /\ UNCHANGED <<sdmOnly, rmsVars, sdmVars, motionCfg, run_files, run, errors,
                   motionRun, written, summary>>

\* lines 232-251: the motion SDM of the next run does not exist
SkipRun ==
    /\ pc = "run"
    /\ run < Len(run_files)
    /\ ~run_files[run + 1].motion_exists
    /\ errors' = Append(errors, ErrorMsg("Motion SDM", run + 1))
    /\ run' = run + 1
    /\ pc' = NextPc(run + 1)
    /\ UNCHANGED <<error, sdmOnly, rmsVars, sdmVars, motionCfg, run_files, motionRun,
                   written, summary>>

\* lines 232-290: read the motion SDM, look for the FMR and the PRT
ReadRun ==
    /\ pc = "run"
    /\ run < Len(run_files)
    /\ run_files[run + 1].motion_exists
    /\ LET f == run_files[run + 1]
           noFmr == USE_CARPET /\ ~f.fmr_exists
           noPrt == USE_PRT /\ ~f.prt_exists
       IN  /\ sdm_header' = f.motion_file.header
           /\ sdm_data' = f.motion_file.data
           /\ carpet_available' = (USE_CARPET /\ f.fmr_exists)
           /\ prt_available' = (USE_PRT /\ f.prt_exists)
           /\ errors' = errors
                \o (IF noFmr THEN <<ErrorMsg("FMR", run + 1)>> ELSE <<>>)
                \o (IF noPrt THEN <<ErrorMsg("PRT", run + 1)>> ELSE <<>>)
    /\ pc' = "variants"
    /\ UNCHANGED <<error, sdmOnly, rmsVars, motionCfg, run_files, run, motion, motion_d,
                   combined_model, fd, n_spikes, written, summary>>

\* bvbabel.sdm.write_sdm(out_files[file], header, data) for the current run
Write(w, file, header, data) ==
    Append(w, [file |-> file, run |-> run + 1, header |-> header, data |-> data])

\* lines 299-302: the copy of sdm_data for variant k
VariantData(k, data, m, d) ==
    AsArray([i \in 1..Len(data) |->
        IF i <= NParams
        THEN [data[i] EXCEPT
                 !.ValuesOfPredictor = VariantFunc(k, m, d, i),
                 !.NameOfPredictor = data[i].NameOfPredictor \o variant_specs[k].postfix]
        ELSE data[i]])

RECURSIVE WriteVariantsTo(_, _, _, _, _, _)
WriteVariantsTo(w, k, header, data, m, d) ==
    IF k = 0 THEN w
    ELSE Write(WriteVariantsTo(w, k - 1, header, data, m, d),
               variant_specs[k].name, header, VariantData(k, data, m, d))

\* faulty variant: sdm_copy is sdm_data itself, not a deep copy of it
RECURSIVE InPlaceData(_, _, _, _)
InPlaceData(k, data, m, d) ==
    IF k = 0 THEN data ELSE VariantData(k, InPlaceData(k - 1, data, m, d), m, d)

RECURSIVE WriteInPlaceTo(_, _, _, _, _, _)
WriteInPlaceTo(w, k, header, data, m, d) ==
    IF k = 0 THEN w
    ELSE Write(WriteInPlaceTo(w, k - 1, header, data, m, d),
               variant_specs[k].name, header, InPlaceData(k, data, m, d))

WriteVariants_InPlace ==
    /\ pc = "variants"
    /\ LET m == AsArray([i \in 1..NParams |-> sdm_data[i].ValuesOfPredictor])
           d == MotionD(m)
       IN  /\ motion' = m
           /\ motion_d' = d
           /\ written' = WriteInPlaceTo(written, Len(variant_specs), sdm_header,
                                        sdm_data, m, d)
           /\ sdm_data' = InPlaceData(Len(variant_specs), sdm_data, m, d)
    /\ pc' = "combined"
    /\ UNCHANGED <<error, sdmOnly, rmsVars, sdm_header, motionCfg, run_files, run,
                   errors, carpet_available, prt_available, combined_model, fd,
                   n_spikes, summary>>

\* lines 295-304
WriteVariants ==
    /\ pc = "variants"
    /\ LET m == AsArray([i \in 1..NParams |-> sdm_data[i].ValuesOfPredictor])
           d == MotionD(m)
       IN  /\ motion' = m
           /\ motion_d' = d
           /\ written' = WriteVariantsTo(written, Len(variant_specs), sdm_header,
                                         sdm_data, m, d)
    /\ pc' = "combined"
    /\ UNCHANGED <<error, sdmOnly, rmsVars, sdmVars, motionCfg, run_files, run, errors,
                   carpet_available, prt_available, combined_model, fd,
                   n_spikes, summary>>

\* one family of the combined model: variant k of the six parameters
Family(k, data, m, d) ==
    AsArray([i \in 1..NParams |->
        [data[i] EXCEPT
            !.ValuesOfPredictor = VariantFunc(k, m, d, i),
            !.NameOfPredictor = data[i].NameOfPredictor \o variant_specs[k].postfix]])

\* faulty variant: the squared family comes before the derivatives
CombinedModel_Swapped(type, data, m, d) ==
    Family(1, data, m, d)
    \o (IF type \in {"18", "24"} THEN Family(3, data, m, d) ELSE <<>>)
    \o (IF type \in {"12", "18", "24"} THEN Family(2, data, m, d) ELSE <<>>)
    \o (IF type = "24" THEN Family(4, data, m, d) ELSE <<>>)

\* lines 307-338
CombinedModel(type, data, m, d) ==
    Family(1, data, m, d)
    \o (IF type \in {"12", "18", "24"} THEN Family(2, data, m, d) ELSE <<>>)
    \o (IF type \in {"18", "24"} THEN Family(3, data, m, d) ELSE <<>>)
    \o (IF type = "24" THEN Family(4, data, m, d) ELSE <<>>)

\* lines 306-345
WriteCombined ==
    /\ pc = "combined"
    /\ LET c == CombinedModel(model_type, sdm_data, motion, motion_d)
       IN  /\ combined_model' = c
           /\ written' = Write(written, model_type \o "model",
                               [sdm_header EXCEPT !.NrOfPredictors = Len(c)], c)
    /\ pc' = "fd"
    /\ UNCHANGED <<error, sdmOnly, rmsVars, sdmVars, motionCfg, run_files, run, errors,
                   carpet_available, prt_available, motion, motion_d, fd,
                   n_spikes, summary>>

\* lines 348-364
WriteFd ==
    /\ pc = "fd"
    /\ LET f == compute_framewise_displacement(motion, head_radius)
       IN  /\ fd' = f
           /\ written' = Write(written, "fd",
                  [sdm_header EXCEPT !.NrOfPredictors = 1,
                                     !.IncludesConstant = 0,
                                     !.FirstConfoundPredictor = 1],
                  <<[sdm_data[1] EXCEPT
                        !.ValuesOfPredictor = f,
                        !.NameOfPredictor = "Framewise Displacement",
                        !.ColorOfPredictor = <<0, 0, 0>>]>>)
    /\ pc' = "spikes"
    /\ UNCHANGED <<error, sdmOnly, rmsVars, sdmVars, motionCfg, run_files, run, errors,
                   carpet_available, prt_available, motion, motion_d,
                   combined_model, n_spikes, summary>>

\* faulty variant: the spike document is written even when it is empty
WriteSpikes_Always ==
    /\ pc = "spikes"
    /\ LET sp == SpikesSdm(fd, fd_threshold)
       IN  /\ written' = Write(written, "fdspikes",
                      [sdm_header EXCEPT !.NrOfPredictors = Len(sp),
                                         !.IncludesConstant = 0,
                                         !.FirstConfoundPredictor = 1], sp)
           /\ n_spikes' = Len(sp)
    /\ pc' = "rms"
    /\ UNCHANGED <<error, sdmOnly, rmsVars, sdmVars, motionCfg, run_files, run, errors,
                   carpet_available, prt_available, motion, motion_d,
                   combined_model, fd, summary>>

\* lines 367-388
WriteSpikes ==
    /\ pc = "spikes"
    /\ LET sp == SpikesSdm(fd, fd_threshold)
       IN  IF sp # <<>>
           THEN /\ written' = Write(written, "fdspikes",
                       [sdm_header EXCEPT !.NrOfPredictors = Len(sp),
                                          !.IncludesConstant = 0,
                                          !.FirstConfoundPredictor = 1], sp)
                /\ n_spikes' = Len(sp)
           ELSE /\ n_spikes' = 0
                /\ UNCHANGED written
    /\ pc' = "rms"
    /\ UNCHANGED <<error, sdmOnly, rmsVars, sdmVars, motionCfg, run_files, run, errors,
                   carpet_available, prt_available, motion, motion_d,
                   combined_model, fd, summary>>

\* lines 391-434: the RMS summary and the plot, the end of the run
FinishRun ==
    /\ pc = "rms"
    /\ rms' = RmsBounds(motion, head_radius)
    /\ rms_color' \in Bands(rms')
    /\ plots' = IF PLOTTING
                THEN Append(plots, [run |-> run + 1, rms_color |-> rms_color',
                                    PRT |-> prt_available,
                                    CARPET |-> carpet_available])
                ELSE plots
    /\ run' = run + 1
    /\ pc' = NextPc(run + 1)
    /\ UNCHANGED <<error, sdmOnly, sdmVars, motionCfg, run_files, errors,
                   motionRun, written, summary>>

\* lines 437-443
Summary ==
    /\ pc = "run"
    /\ run = Len(run_files)
    /\ summary' = IF errors # <<>> THEN "SUMMARY OF ERRORS"
                  ELSE "All SDM motion files processed without errors"
    /\ pc' = "end"
    /\ UNCHANGED <<error, sdmOnly, rmsVars, sdmVars, motionCfg, run_files, run, errors,
                   motionRun, written>>

NextMotion ==
    \/ CheckModelType
    \/ StartSession
    \/ SkipRun
    \/ ReadRun
    \/ WriteVariants
    \/ WriteCombined
    \/ WriteFd
    \/ WriteSpikes
    \/ FinishRun
    \/ Summary

SpecMotion == InitMotion /\ [][NextMotion]_vars

(***************************************************************************)
(* preprocess_fmr.py: the run loop and the step loop of one session whose  *)
(* reference run is found.  BrainVoyager is the environment: a step either *)
(* returns or raises.  A file is the run it belongs to and the steps that  *)
(* were applied to it, which is what preprocessed_fmr_name tells.          *)
(***************************************************************************)
PrepSteps == {"adjust_mean_intensity", "motion_correction", "slice_timing",
              "highpass_filter", "smooth_temporal", "smooth_spatial"}

\* lines 68-90: the switches of the options dictionary
DefaultOptions ==
    [s \in PrepSteps |-> s \in {"motion_correction", "slice_timing", "highpass_filter"}]
\* lines 93-100
DefaultOrder == <<"adjust_mean_intensity", "motion_correction", "slice_timing",
                  "highpass_filter", "smooth_temporal", "smooth_spatial">>

\* options.get(step, False)
OptionGet(opts, s) == IF s \in DOMAIN opts THEN opts[s] ELSE FALSE

\* line 190-191: the starting file of a run (starting_suffix "")
StartingFile(r) == [run |-> r, applied |-> <<>>]
\* line 262: doc_fmr.preprocessed_fmr_name after step s on file f
preprocessed_fmr_name(f, s) == [f EXCEPT !.applied = Append(@, s)]

\* the messages of the script; has_ERROR tells whether the text holds 'ERROR'
Message(text, r, s) ==
    [has_ERROR |-> SubSeq(text, 1, 5) = "ERROR", text |-> text, run |-> r, step |-> s]

\* lines 130-134: log_message collects the message and appends it to the file
Collected(errs, msgs) == errs \o SelectSeq(msgs, LAMBDA m : m.has_ERROR)

\* faulty variant: a failed step hands an output name to the next step
NextInput_Advance(f, s, outcome) == preprocessed_fmr_name(f, s)

\* lines 236-268: the input of the next step after step s on file f
NextInput(f, s, outcome) == IF outcome = "returns" THEN preprocessed_fmr_name(f, s) ELSE f

MaxPrepRuns == 2
MaxFailures == 2
OptionSets ==
    {DefaultOptions,
     [s \in PrepSteps |-> TRUE],
     [s \in PrepSteps |-> FALSE],
     [s \in {"smooth_spatial", "adjust_mean_intensity"} |-> TRUE]}
PipelineOrders ==
    {DefaultOrder,
     <<"slice_timing", "motion_correction", "highpass_filter", "smooth_spatial",
       "smooth_temporal", "adjust_mean_intensity">>,
     <<"motion_correction", "highpass_filter">>}
RunInputs == SeqsUpTo(BOOLEAN, MaxPrepRuns)
Outcomes == {"returns", "open_raises", "step_raises"}
Failures == Cardinality({j \in 1..Len(calls) : calls[j].outcome # "returns"})

InitPrep ==
    /\ pc = "prep_run"
    /\ error = "none"
    /\ options \in OptionSets
    /\ pipeline_order \in PipelineOrders
    /\ run_inputs \in RunInputs
    /\ prep_run = 0
    /\ step = 0
    /\ current_file = Unbound
    /\ all_errors = <<>>
    /\ log = <<>>
    /\ calls = <<>>
    /\ prep_summary = Unbound
    /\ weights_args = Unbound
    /\ hrf_args = Unbound
    /\ hrf = Unbound
    /\ define_para_sdm = TRUE
    /\ standardize_weights = 0
    /\ RestCondInPRT = FALSE
    /\ RestCondNumber = 0
    /\ ScalePred1 = FALSE
    /\ prt_header = Unbound
    /\ prt_data = Unbound
    /\ TR = 0
    /\ n_vols = 0
    /\ IdleLoop
    /\ IdleMotion
    /\ IdleTsv

notPrep == <<error, cfgVars, runVars, prtVars, hrf_args, hrf, cond, boxVars, convVars,
             paraVars, sdmVars, weights_args, motionVars, rows>>

Logged(msgs) ==
    /\ log' = log \o msgs
    /\ all_errors' = Collected(all_errors, msgs)

\* lines 182-228: no starting file is found for the next run
SkipPrepRun ==
    /\ pc = "prep_run"
    /\ prep_run < Len(run_inputs)
    /\ ~run_inputs[prep_run + 1]
    /\ Logged(<<Message("ERROR: Could not find any valid input file", prep_run + 1,
                        "none")>>)
    /\ prep_run' = prep_run + 1
    /\ UNCHANGED <<pc, options, pipeline_order, run_inputs, step, current_file, calls,
                   prep_summary, notPrep>>

\* lines 182-228: the starting file of the next run is found or made
StartPrepRun ==
    /\ pc = "prep_run"
    /\ prep_run < Len(run_inputs)
    /\ run_inputs[prep_run + 1]
    /\ current_file' = StartingFile(prep_run + 1)
    /\ Logged(<<Message("Run: starting FMR", prep_run + 1, "none")>>)
    /\ step' = 0
    /\ pc' = "prep_step"
    /\ UNCHANGED <<options, pipeline_order, run_inputs, prep_run, calls, prep_summary,
                   notPrep>>

\* lines 232-234: the next entry of pipeline_order is not enabled
SkipStep ==
    /\ pc = "prep_step"
    /\ step < Len(pipeline_order)
    /\ ~OptionGet(options, pipeline_order[step + 1])
    /\ step' = step + 1
    /\ UNCHANGED <<pc, options, pipeline_order, run_inputs, prep_run, current_file,
                   all_errors, log, calls, prep_summary, notPrep>>

\* lines 232-268: the next entry of pipeline_order is enabled; the document
\* is opened, the step is called, and what is raised is caught and logged
RunStep ==
    /\ pc = "prep_step"
    /\ step < Len(pipeline_order)
    /\ OptionGet(options, pipeline_order[step + 1])
    /\ \E outcome \in Outcomes :
          LET s == pipeline_order[step + 1]
              r == prep_run + 1
              starting == <<Message("Starting step", r, s)>>
          IN  /\ outcome # "returns" => Failures < MaxFailures
              /\ calls' = Append(calls, [run |-> r, step |-> s, file |-> current_file,
                                         outcome |-> outcome])
              /\ current_file' = NextInput(current_file, s, outcome)
              /\ Logged(CASE outcome = "returns" ->
                               starting \o <<Message("Finished step", r, s)>>
                          [] outcome = "step_raises" ->
                               starting \o <<Message("ERROR in step", r, s)>>
                          [] outcome = "open_raises" ->
                               <<Message("ERROR in step", r, s)>>)
    /\ step' = step + 1
    /\ UNCHANGED <<pc, options, pipeline_order, run_inputs, prep_run, prep_summary,
                   notPrep>>

\* line 270: the step loop of the run is over
FinishPrepRun ==
    /\ pc = "prep_step"
    /\ step = Len(pipeline_order)
    /\ Logged(<<Message("=== Finished preprocessing", prep_run + 1, "none")>>)
    /\ prep_run' = prep_run + 1
    /\ pc' = "prep_run"
    /\ UNCHANGED <<options, pipeline_order, run_inputs, step, current_file, calls,
                   prep_summary, notPrep>>

\* lines 272-282
PrepSummary ==
    /\ pc = "prep_run"
    /\ prep_run = Len(run_inputs)
    /\ Logged(<<Message("=== Finished preprocessing", 0, "none")>>)
    /\ prep_summary' = IF all_errors # <<>> THEN all_errors
                       ELSE <<"No errors encountered during preprocessing.">>
    /\ pc' = "prep_end"
    /\ UNCHANGED <<options, pipeline_order, run_inputs, prep_run, step, current_file,
                   calls, notPrep>>

NextPrep ==
    \/ SkipPrepRun
    \/ StartPrepRun
    \/ SkipStep
    \/ RunStep
    \/ FinishPrepRun
    \/ PrepSummary

SpecPrep == InitPrep /\ [][NextPrep]_vars

(***************************************************************************)
(* read_prt_write_tsv.py: convert_to_tsv(prt_path, tr).  prt_header and    *)
(* prt_data are what read_prt returns and TR is the tr the dialog returns. *)
(***************************************************************************)
\* lines 40-45
TsvOnset(start, is_msec, tr) ==
    IF is_msec THEN FDivInt(start, 1000) ELSE FDivInt((start - 1) * tr, 1000)

TsvOffset(stop, is_msec, tr) ==
    IF is_msec THEN FDivInt(stop, 1000) ELSE FDivInt(stop * tr, 1000)

\* line 47
TsvDuration(start, stop, is_msec, tr) ==
    NpRound4(FSub(TsvOffset(stop, is_msec, tr), TsvOnset(start, is_msec, tr)))

\* lines 36-49: the rows of one condition, and of the first k conditions
CondRows(c, is_msec, tr) ==
    [j \in 1..Len(c.Time_start) |->
        <<TsvOnset(c.Time_start[j], is_msec, tr),
          TsvDuration(c.Time_start[j], c.Time_stop[j], is_msec, tr),
          c.NameOfCondition>>]

RECURSIVE TsvRows(_, _, _, _)
TsvRows(data, k, is_msec, tr) ==
    IF k = 0 THEN <<>>
    ELSE TsvRows(data, k - 1, is_msec, tr) \o CondRows(data[k], is_msec, tr)

\* get_tr (lines 15-24) accepts 100..10000 ms
TsvTRs == {100, 1100, 2000}
TsvTimesMs == {0, 13, 14, 2200}
TsvTimesVol == {1, 2, 3, 12}
TsvTimes(kind) == IF kind = "msec" THEN TsvTimesMs ELSE TsvTimesVol
TsvIntervals(kind) == {iv \in TsvTimes(kind) \X TsvTimes(kind) : iv[1] <= iv[2]}
TsvSecond(kind) ==
    IF kind = "msec" THEN Condition(2, <<<<0, 13>>, <<14, 2200>>>>, <<RInt(1), RInt(1)>>)
    ELSE Condition(2, <<<<1, 2>>, <<3, 12>>>>, <<RInt(1), RInt(1)>>)
TsvProtocols(kind) ==
    {<<>>}
    \cup {<<Condition(1, <<iv>>, <<RInt(1)>>)>> : iv \in TsvIntervals(kind)}
    \cup {<<Condition(1, <<iv>>, <<RInt(1)>>), TsvSecond(kind)>> : iv \in TsvIntervals(kind)}

InitTsv ==
    /\ pc = "call_tsv"
    /\ error = "none"
    /\ \E kind \in ResolutionKinds :
          /\ prt_data \in TsvProtocols(kind)
          /\ prt_header = [ResolutionOfTime |-> kind, NrOfConditions |-> Len(prt_data)]
    /\ TR \in TsvTRs
    /\ n_vols = 0
    /\ rows = Unbound
    /\ weights_args = Unbound
    /\ hrf_args = Unbound
    /\ hrf = Unbound
    /\ define_para_sdm = TRUE
    /\ standardize_weights = 0
    /\ RestCondInPRT = FALSE
    /\ RestCondNumber = 0
    /\ ScalePred1 = FALSE
    /\ IdleLoop
    /\ IdleMotion
    /\ IdlePrep

\* lines 27-57
Call_convert_to_tsv ==
    /\ pc = "call_tsv"
    /\ rows' = TsvRows(prt_data, Len(prt_data), prt_is_msec, TR)
    /\ pc' = "return_tsv"
    /\ UNCHANGED <<error, cfgVars, runVars, prtVars, hrf_args, hrf, cond, boxVars,
                   convVars, paraVars, sdmVars, weights_args, motionVars, prepVars>>

NextTsv == Call_convert_to_tsv

SpecTsv == InitTsv /\ [][NextTsv]_vars

(***************************************************************************)
(* Properties of twogamma_hrf (SpecHrf).                                   *)
(***************************************************************************)
Returned == pc = "return"
ArgRaw == RawHrf(hrf_args.posG, hrf_args.negG, hrf_args.ratio)
ArgSum == RSum(ArgRaw)
ArgPeak == AbsFmax(ArgRaw)
BothRequested == hrf_args.ScaleToOne /\ hrf_args.DivideBySum
SumValid == RLt(SumMin, ArgSum)
PeakValid == RLe(PeakMin, ArgPeak)

\* C1 as stated: with both flags requested and a kernel sum > 0.01 the
\* kernel is divided by its sum and is not scaled to unit peak.
C1_SumNormalizationWins ==
    (Returned /\ BothRequested /\ SumValid) =>
        /\ hrf.hrf = ArrDiv(ArgRaw, ArgSum)
        /\ hrf.DivideBySum
        /\ ~hrf.ScaleToOne

\* C1 amended: with both flags requested and a kernel sum > 0.01 the kernel
\* is never divided by its sum; it is divided by its peak absolute value
\* when that is >= 0.0001 and is returned unchanged otherwise.
C1_UnitPeakWins ==
    (Returned /\ BothRequested /\ SumValid) =>
        /\ ~hrf.DivideBySum
        /\ hrf.ScaleToOne = PeakValid
        /\ hrf.hrf = IF PeakValid THEN ArrDiv(ArgRaw, ArgPeak) ELSE ArgRaw

C1_Witness ==
    /\ Returned /\ BothRequested /\ SumValid /\ PeakValid
    /\ hrf.ScaleToOne
    /\ hrf.hrf = ArrDiv(ArgRaw, ArgPeak)
    /\ hrf.hrf # ArrDiv(ArgRaw, ArgSum)

\* C2: at most one normalization is applied.  The kernel is divided by its
\* sum only if normalize_by_sum was requested and the sum is > 0.01, by its
\* peak absolute value only if scale_to_unit_peak was requested and that
\* peak is >= 0.0001, never by both; and when the sum is <= 0.01 with both
\* requested and a peak >= 0.0001 the kernel is scaled to unit peak.
C2_AtMostOneNormalization ==
    Returned =>
        /\ hrf.DivideBySum => (hrf_args.DivideBySum /\ SumValid)
        /\ hrf.ScaleToOne => (hrf_args.ScaleToOne /\ PeakValid)
        /\ ~(hrf.DivideBySum /\ hrf.ScaleToOne)
        /\ hrf.hrf = IF hrf.DivideBySum THEN ArrDiv(ArgRaw, ArgSum)
                     ELSE IF hrf.ScaleToOne THEN ArrDiv(ArgRaw, ArgPeak)
                     ELSE ArgRaw
        /\ (BothRequested /\ ~SumValid /\ PeakValid) =>
              (hrf.ScaleToOne /\ hrf.hrf = ArrDiv(ArgRaw, ArgPeak))

C2_Witness ==
    /\ Returned /\ BothRequested /\ ~SumValid /\ PeakValid
    /\ hrf.hrf = ArrDiv(ArgRaw, ArgPeak)
    /\ hrf.hrf # ArgRaw

\* C3: for a ratio < 0.001 the un-normalized kernel is the negated
\* undershoot term alone; from 0.001 on (0.001 included) it is the peak term
\* minus the undershoot term divided by the ratio.
Unnormalized == ~hrf_args.ScaleToOne /\ ~hrf_args.DivideBySum

C3_DegenerateRatio ==
    (Returned /\ Unnormalized) =>
        /\ Len(hrf.hrf) = Len(hrf_args.posG)
        /\ \A i \in 1..Len(hrf.hrf) :
              hrf.hrf[i] = IF RLt(hrf_args.ratio, Rat(1, 1000))
                           THEN RNeg(hrf_args.negG[i])
                           ELSE RSub(hrf_args.posG[i],
                                     RDiv(hrf_args.negG[i], hrf_args.ratio))

C3_Witness ==
    /\ Returned /\ Unnormalized
    /\ hrf_args.ratio = Rat(1, 1000)
    /\ \E i \in 1..Len(hrf.hrf) :
          /\ hrf_args.posG[i] # RZero
          /\ hrf_args.negG[i] # RZero
          /\ hrf.hrf[i] = RSub(hrf_args.posG[i], RMul(RInt(1000), hrf_args.negG[i]))

(***************************************************************************)
(* Properties of the dense raster and the convolution (SpecCond, SpecSdm). *)
(***************************************************************************)
CurCond == prt_data[cond + 1]
NIntervals == Min2(Len(CurCond.Time_start), Len(CurCond.Time_stop))
Rasterized == pc \in {"conv", "para", "append"}
Convolved == pc \in {"para", "append"}
Weighted == pc = "append" /\ add_parametric_predictor

\* interval j of the current condition in milliseconds from run start
StartMs(j) ==
    IF prt_is_msec THEN CurCond.Time_start[j] ELSE (CurCond.Time_start[j] - 1) * TR
StopMs(j) ==
    IF prt_is_msec THEN CurCond.Time_stop[j] ELSE CurCond.Time_stop[j] * TR

\* n / d rounded to the nearest integer (n >= 0, d > 0; a tie goes up)
RoundNearest(n, d) == (2 * n + d) \div (2 * d)

\* C4 as stated: an interval that extends past n_volumes * tr_ms is reported
\* as an OutOfRangeInterval error instead of being rasterized.
C4_OutOfRangeIsError ==
    (Rasterized /\ \E j \in 1..NIntervals : StopMs(j) > n_vols * TR) =>
        error = "OutOfRangeInterval"

\* C5 as stated: a volume-resolution interval (a, b) rasterizes exactly as
\* the millisecond interval ((a - 1) * tr_ms, b * tr_ms).
C5_VolumesAsMilliseconds ==
    (Rasterized /\ ~prt_is_msec) =>
        pred_block_hires =
            Boxcar([j \in 1..NIntervals |-> StartMs(j)],
                   [j \in 1..NIntervals |-> StopMs(j)], TRUE, TR, n_vols)

\* the sample indices of the first k interval starts and stops
RECURSIVE StartIdxs(_)
StartIdxs(k) ==
    IF k = 0 THEN <<>>
    ELSE Append(StartIdxs(k - 1), StartIdx(CurCond.Time_start[k], prt_is_msec, TR))

RECURSIVE StopIdxs(_)
StopIdxs(k) ==
    IF k = 0 THEN <<>>
    ELSE Append(StopIdxs(k - 1), StopIdx(CurCond.Time_stop[k], prt_is_msec, TR))

\* the intervals whose inclusive sample range lo[j]..hi[j] holds sample i
\* (counted from 0)
Covering(lo, hi, i) == {j \in 1..Len(lo) : lo[j] <= i /\ i <= hi[j]}

SetMax(S) == CHOOSE m \in S : \A k \in S : k <= m

\* the worked example: TR 2000 ms, 4 volumes, intervals 0-2000 and 4000-6000
ExampleBoxcar == Boxcar(<<0, 4000>>, <<2000, 6000>>, TRUE, 2000, 4)

\* 800 samples, 1 on samples 0..200 and 400..600 (counted from 0)
ExampleIsTwoBlocks ==
    /\ Len(ExampleBoxcar) = 800
    /\ \A i \in 1..800 :
          ExampleBoxcar[i] = IF (0 <= i - 1 /\ i - 1 <= 200)
                                \/ (400 <= i - 1 /\ i - 1 <= 600)
                             THEN ROne ELSE RZero

\* C6: intervals are written in list order, each over its inclusive sample
\* range.  A boxcar sample is 1 when some interval covers it and 0 otherwise;
\* a weighted sample holds the weight of the last interval that covers it.
\* The example raster has 800 samples, 1 on 0..200 and 400..600.
C6_LastWriteWins ==
    /\ Rasterized =>
          LET lo == StartIdxs(NIntervals)
              hi == StopIdxs(NIntervals)
          IN  /\ Len(pred_block_hires) = NTimepointsHires(n_vols, TR)
              /\ \A i \in 1..Len(pred_block_hires) :
                    pred_block_hires[i] =
                        IF Covering(lo, hi, i - 1) = {} THEN RZero ELSE ROne
              /\ Weighted =>
                    /\ Len(pred_weights_hires) = Len(pred_block_hires)
                    /\ \A i \in 1..Len(pred_weights_hires) :
                          pred_weights_hires[i] =
                              IF Covering(lo, hi, i - 1) = {} THEN RZero
                              ELSE weights[SetMax(Covering(lo, hi, i - 1))]
    /\ ExampleIsTwoBlocks

C6_Witness ==
    /\ Weighted
    /\ \E i \in 1..Len(pred_weights_hires) :
          /\ Covering(StartIdxs(NIntervals), StopIdxs(NIntervals), i - 1) = {1, 2}
          /\ weights[1] # weights[2]
          /\ pred_weights_hires[i] = weights[2]
          /\ pred_block_hires[i] = ROne

\* C7 as stated: the dense raster has round(n_volumes * tr_ms / 1000 * fs)
\* samples.
C7_DenseLengthRounded ==
    Rasterized =>
        Len(pred_block_hires) = RoundNearest(n_vols * TR * fs, 1000)

\* C8 as stated: a time of t milliseconds maps to the sample index
\* round(t / 1000 * fs), for interval starts and stops alike.
C8_IndexRounded ==
    (Rasterized /\ prt_is_msec) =>
        \A j \in 1..NIntervals :
            /\ StartIdx(CurCond.Time_start[j], TRUE, TR)
                  = RoundNearest(CurCond.Time_start[j] * fs, 1000)
            /\ StopIdx(CurCond.Time_stop[j], TRUE, TR)
                  = RoundNearest(CurCond.Time_stop[j] * fs, 1000)

\* C9 as stated: when fs * tr_ms / 1000 is a positive integer every
\* predictor of the design matrix has exactly n_volumes values.
IntegerSamplesPerTR == (fs * TR) % 1000 = 0 /\ fs * TR >= 1000

C9_PredictorLength ==
    IntegerSamplesPerTR =>
        /\ Convolved => Len(pred_conv) = n_vols
        /\ Weighted => Len(pred_weights_conv) = n_vols
        /\ pc = "done" =>
              \A k \in 1..Len(sdm_data) :
                  Len(sdm_data[k].ValuesOfPredictor) = sdm_header.NrOfDataPoints

\* sum of x[t - k] * h[k] for k = 0..m (indices counted from 0)
RECURSIVE CausalSum(_, _, _, _)
CausalSum(x, h, t, m) ==
    IF m < 0 THEN RZero
    ELSE RAdd(CausalSum(x, h, t, m - 1), RMul(x[t - m + 1], h[m + 1]))

IsCausalConv(y, x, h) ==
    /\ Len(y) = Len(x)
    /\ \A t \in 0..(Len(x) - 1) :
          y[t + 1] = CausalSum(x, h, t, Min2(t, Len(h) - 1))
    /\ \A t \in 1..Len(x) :
          (\A u \in 1..t : x[u] = RZero) => y[t] = RZero

\* C10: the convolved series has the length of the dense raster, sample t is
\* the sum of raster[t - k] * kernel[k] over k = 0..min(t, len(kernel) - 1),
\* and every sample before the first non-zero raster sample is exactly 0.
C10_CausalConvolution ==
    /\ Convolved => IsCausalConv(pred_conv_hires, pred_block_hires, hrf)
    /\ Weighted => IsCausalConv(pred_weights_conv_hires, pred_weights_hires, hrf)

C10_Witness ==
    /\ Weighted
    /\ Len(pred_block_hires) > Len(hrf)
    /\ pred_block_hires[1] = RZero /\ pred_conv_hires[1] = RZero
    /\ pred_block_hires[2] = ROne /\ pred_conv_hires[2] = hrf[1]
    /\ pred_conv_hires[4] = RAdd(hrf[1], RAdd(hrf[2], hrf[3]))
    /\ pred_weights_conv_hires # pred_conv_hires

(***************************************************************************)
(* Properties of the assembled design matrix (SpecSdm).                    *)
(***************************************************************************)
Assembled == pc \in {"header", "done"}
ConstantPredictor == Predictor("Constant", <<255, 255, 255>>, Ones(n_vols))
NamedConstant == {k \in 1..Len(sdm_data) : sdm_data[k].NameOfPredictor = "Constant"}

\* C11: the predictor list of every assembled document ends with the
\* predictor "Constant", colour [255,255,255], n_volumes values all 1, and no
\* other entry is a constant term, whatever the number of conditions.
C11_ConstantIsLast ==
    Assembled =>
        /\ Len(sdm_data) >= 1
        /\ sdm_data[Len(sdm_data)] = ConstantPredictor
        /\ Len(sdm_data[Len(sdm_data)].ValuesOfPredictor) = n_vols
        /\ \A i \in 1..n_vols : sdm_data[Len(sdm_data)].ValuesOfPredictor[i] = ROne
        /\ NamedConstant = {Len(sdm_data)}

C11_Witness ==
    /\ pc = "done"
    /\ RestCondInPRT
    /\ Len(sdm_data) = 2
    /\ sdm_data[2] = ConstantPredictor
    /\ sdm_data[1].NameOfPredictor # "Constant"

\* the conditions that get a parametric predictor
ParametricConds == {k \in 1..Len(prt_data) : AddParametric(prt_header, prt_data[k])}

\* C12: in every written document the header's predictor count is the length
\* of the predictor list, which is conditions + parametric predictors + 1;
\* the volume count is n_volumes, the constant flag is set and the first
\* confound predictor index is the predictor count.
C12_HeaderCounts ==
    pc = "done" =>
        /\ sdm_header.NrOfPredictors = Len(sdm_data)
        /\ Len(sdm_data) = Len(prt_data) + Cardinality(ParametricConds) + 1
        /\ sdm_header.NrOfDataPoints = n_vols
        /\ sdm_header.IncludesConstant = 1
        /\ sdm_header.FirstConfoundPredictor = sdm_header.NrOfPredictors

C12_Witness ==
    /\ pc = "done"
    /\ Cardinality(ParametricConds) = 1
    /\ Len(prt_data) = 2
    /\ sdm_header.NrOfPredictors = 4
    /\ sdm_header.FirstConfoundPredictor = 4

\* the condition whose predictors were appended last
JustAppended == pc = "loop" /\ cond > 0
LastCond == prt_data[cond]
LastAdd == AddParametric(prt_header, LastCond)
LastMain == sdm_data[Len(sdm_data) - (IF LastAdd THEN 1 ELSE 0)].ValuesOfPredictor
LastPara == sdm_data[Len(sdm_data)].ValuesOfPredictor

\* its predictors before any amplitude scaling
UnscaledMain ==
    ConvolveResample(Boxcar(LastCond.Time_start, LastCond.Time_stop, prt_is_msec,
                            TR, n_vols), hrf, TR, n_vols)
UnscaledPara ==
    LET w == create_weights(LastCond.Parametric_weight, standardize_weights)
    IN  OverStd(ConvolveResample(
                    WeightedBoxcar(LastCond.Time_start, LastCond.Time_stop,
                                   Numerators(w), prt_is_msec, TR, n_vols),
                    hrf, TR, n_vols), w)

IsFinite(a) == \A i \in 1..Len(a) : a[i][2] # 0

\* C13 as stated: with unit-amplitude scaling on, every main predictor is
\* its unscaled series divided by that series' maximum and has maximum 1,
\* and a parametric predictor is unscaled; with scaling off nothing changes.
C13_UnitAmplitude ==
    JustAppended =>
        /\ IF ScalePred1
           THEN /\ LastMain = ArrDiv(UnscaledMain, RMaxOf(UnscaledMain))
                /\ IsFinite(LastMain)
                /\ RMaxOf(LastMain) = ROne
           ELSE LastMain = UnscaledMain
        /\ LastAdd => LastPara = UnscaledPara

\* C14 as stated: with unit-amplitude scaling on, a predictor whose maximum
\* is <= 0 yields a DegenerateMaxValue error, and no NaN or inf value is put
\* into the document.
C14_DegenerateMaxIsError ==
    (JustAppended /\ ScalePred1 /\ RLe(RMaxOf(UnscaledMain), RZero)) =>
        /\ error = "DegenerateMaxValue"
        /\ IsFinite(LastMain)

(***************************************************************************)
(* Properties of create_weights (SpecWeights).                             *)
(***************************************************************************)
WeightsReturned == pc = "return_weights"
ArgWeights == weights_args.a
ArgMean == RDiv(RSum(ArgWeights), RInt(Len(ArgWeights)))

\* sum of the squares of a
RECURSIVE SumSq(_, _)
SumSq(a, n) == IF n = 0 THEN RZero ELSE RAdd(SumSq(a, n - 1), RMul(a[n], a[n]))

\* a series of dev / sqrt(var) values has mean 0 and standard deviation 1
HasMeanZeroStdOne(z) ==
    /\ \A i \in 1..Len(z) : z[i].var = z[1].var /\ RLt(RZero, z[i].var)
    /\ RSum([i \in 1..Len(z) |-> z[i].dev]) = RZero
    /\ RDiv(SumSq([i \in 1..Len(z) |-> z[i].dev], Len(z)), RInt(Len(z))) = z[1].var

\* C15 as stated: mode 0 returns the weights unchanged, mode 1 the weights
\* minus their mean (sum 0), mode 2 (weights - mean) / std with mean 0 and
\* standard deviation 1; length and order are kept in every mode.
C15_Standardize ==
    WeightsReturned =>
        /\ Len(weights) = Len(ArgWeights)
        /\ weights_args.b = 0 => weights = ArgWeights
        /\ weights_args.b = 1 =>
              /\ \A i \in 1..Len(weights) : weights[i] = RSub(ArgWeights[i], ArgMean)
              /\ RSum(weights) = RZero
        /\ weights_args.b = 2 =>
              /\ \A i \in 1..Len(weights) :
                    weights[i].dev = RSub(ArgWeights[i], ArgMean)
              /\ HasMeanZeroStdOne(weights)

\* C16 as stated: mode 2 on a weight vector whose standard deviation is 0
\* raises a ZeroVariance error.
C16_ZeroVarianceIsError ==
    (pc \in {"return_weights", "aborted"} /\ weights_args.b = 2
        /\ \A i \in 1..Len(ArgWeights) : ArgWeights[i] = ArgWeights[1]) =>
        error = "ZeroVariance"

(***************************************************************************)
(* Properties of plot-motion_compute-extended-motion-sdm-fd.py.            *)
(***************************************************************************)
CombinedBuilt == pc \in {"fd", "spikes", "rms"}
RequestedSize == IF model_type = "12" THEN 12 ELSE IF model_type = "18" THEN 18 ELSE 24
FamilyPostfix == <<" zscored", " derivative", " squared", " derivative_squared">>
FamilyValues(f, i) ==
    IF f = 1 THEN ZScore(motion[i])
    ELSE IF f = 2 THEN ZScore(motion_d[i])
    ELSE IF f = 3 THEN ZScore([t \in 1..Len(motion[i]) |-> RMul(motion[i][t], motion[i][t])])
    ELSE ZScore([t \in 1..Len(motion_d[i]) |-> RMul(motion_d[i][t], motion_d[i][t])])
LastWritten == written[Len(written)]

\* C17: the combined motion model of requested size 12, 18 or 24 holds
\* exactly that many regressors: the 6 z-scored raw parameters, then the 6
\* z-scored derivatives, then (18, 24) the 6 z-scored squares, then (24) the
\* 6 z-scored squared derivatives, each family in parameter order; the header
\* written with it counts exactly these regressors; and any other requested
\* size stops the script before a run is processed or a document written.
C17_CombinedModel ==
    /\ (pc = "fd" =>
          /\ model_type \in {"12", "18", "24"}
          /\ Len(combined_model) = RequestedSize
          /\ \A f \in 1..(RequestedSize \div NParams) : \A i \in 1..NParams :
                LET pred == combined_model[(f - 1) * NParams + i]
                IN  /\ pred.NameOfPredictor = MotionNames[i] \o FamilyPostfix[f]
                    /\ pred.ColorOfPredictor = MotionColors[i]
                    /\ pred.ValuesOfPredictor = FamilyValues(f, i)
          /\ LastWritten.file = model_type \o "model"
          /\ LastWritten.run = run + 1
          /\ LastWritten.data = combined_model
          /\ LastWritten.header.NrOfPredictors = RequestedSize
          /\ LastWritten.header.NrOfDataPoints = Len(motion[1]))
    /\ (model_type \notin {"12", "18", "24"} /\ pc # "assert" =>
          /\ pc = "aborted"
          /\ error = "AssertionError"
          /\ run = 0
          /\ written = <<>>)

AllRows(doc) == {doc[k].ValuesOfPredictor : k \in 1..Len(doc)}
IsFiniteZ(z) == \A t \in 1..Len(z) : z[t].var # RZero

\* a 24-regressor model whose regressors are all finite and all different
C17_Witness ==
    /\ pc = "fd"
    /\ model_type = "24"
    /\ Len(combined_model) = 24
    /\ Cardinality(AllRows(combined_model)) = 24
    /\ \A z \in AllRows(combined_model) : IsFiniteZ(z)

\* a request for another size has been turned down
C17_WitnessRejected ==
    /\ pc = "aborted"
    /\ model_type = "6"
    /\ run_files # <<>>

FdComputed == pc = "spikes"
NVols == Len(motion[1])
\* |row i at volume t - row i at volume t - 1|, volumes counted from 0
Moved(i, t) == RAbs(RSub(motion[i][t + 1], motion[i][t]))
TranslationSum(t) == RAdd(RAdd(Moved(1, t), Moved(2, t)), Moved(3, t))
RotationSum(t) == RAdd(RAdd(Moved(4, t), Moved(5, t)), Moved(6, t))
ConstantTrace == \A i \in 1..NParams : \A t \in 1..NVols : motion[i][t] = motion[i][1]
\* row i steps up by 1 at volume v and nothing else ever moves
SingleStepAt(i, v) ==
    /\ v < NVols
    /\ \A t \in 1..(NVols - 1) :
          \A k \in 1..NParams :
             Moved(k, t) = IF k = i /\ t = v THEN RInt(1) ELSE RZero
    /\ RSub(motion[i][v + 1], motion[i][v]) = RInt(1)

\* the example: a 1 mm step of TY at volume 5 of a 6-volume run
ExampleTrace ==
    [i \in 1..NParams |->
        [t \in 1..6 |-> IF i = 2 /\ t - 1 >= 5 THEN Rat(5, 4) ELSE Rat(1, 4)]]
ExampleFdIsOneAtFive ==
    compute_framewise_displacement(ExampleTrace, head_radius)
        = <<MmZero, MmZero, MmZero, MmZero, MmZero, Mm(RInt(1))>>

\* C18: the framewise displacement has one value per volume, is 0 at volume
\* 0, and at every later volume t is the sum over the six parameters of
\* |value at t - value at t-1|, the three rotations taken as arc lengths
\* degrees * pi / 180 * 50 mm; so a trace that never changes gives zeros
\* throughout, and a single 1 mm translation step at volume 5 gives 1 at
\* volume 5 and 0 at every other volume.
C18_FramewiseDisplacement ==
    /\ ExampleFdIsOneAtFive
    /\ (FdComputed =>
          /\ Len(fd) = NVols
          /\ fd[1] = MmZero
          /\ \A t \in 1..(NVols - 1) :
                /\ fd[t + 1].mm = TranslationSum(t)
                /\ fd[t + 1].arc = RMul(RInt(50), RotationSum(t))
          /\ (ConstantTrace => \A t \in 1..NVols : fd[t] = MmZero)
          /\ \A i \in 1..3 :
                SingleStepAt(i, 5) =>
                   \A t \in 1..NVols :
                      fd[t] = IF t - 1 = 5 THEN Mm(RInt(1)) ELSE MmZero)

\* a run with the 1 mm step at volume 5, its displacement computed
C18_Witness ==
    /\ FdComputed
    /\ \E i \in 1..3 : SingleStepAt(i, 5)
    /\ fd[6] = Mm(RInt(1))

\* a run in which a translation and a rotation move at different volumes
C18_WitnessRotation ==
    /\ FdComputed
    /\ \E t \in 2..NVols : fd[t].arc # RZero
    /\ \E t \in 2..NVols : fd[t].mm # RZero

SpikesDone == pc = "rms"
StrictlyAbove(x) == RLt(fd_threshold, MmLow(x))
AtOrBelow(x) == RLe(MmHigh(x), fd_threshold)
\* the volumes, counted from 0, whose displacement exceeds the threshold
SpikeVolumes == {t \in 0..(Len(fd) - 1) : StrictlyAbove(fd[t + 1])}
\* the volumes at which a predictor is 1
OnesOf(values) == {t \in 0..(Len(values) - 1) : values[t + 1] = 1}
SpikeDocs == {k \in 1..Len(written) : written[k].file = "fdspikes" /\ written[k].run = run + 1}
TheVolume(pred) == CHOOSE t \in OnesOf(pred.ValuesOfPredictor) : TRUE

\* C19: after the spike step the spike predictors of the run stand one to
\* one for the volumes whose framewise displacement is strictly greater
\* than the threshold (a displacement equal to the threshold gives none):
\* each has one value per volume, a single 1 at its volume and 0 elsewhere,
\* and the name Spike_<volume counted from 1>; they come in increasing
\* volume order; and the header of the spike document counts them.
C19_SpikeIndicators ==
    SpikesDone =>
       /\ \A t \in 0..(Len(fd) - 1) : StrictlyAbove(fd[t + 1]) \/ AtOrBelow(fd[t + 1])
       /\ n_spikes = Cardinality(SpikeVolumes)
       /\ (SpikeVolumes = {} => SpikeDocs = {})
       /\ (SpikeVolumes # {} =>
             /\ SpikeDocs = {Len(written)}
             /\ LET doc == LastWritten
                IN  /\ Len(doc.data) = Cardinality(SpikeVolumes)
                    /\ doc.header.NrOfPredictors = Cardinality(SpikeVolumes)
                    /\ \A k \in 1..Len(doc.data) :
                          LET pred == doc.data[k]
                          IN  /\ Len(pred.ValuesOfPredictor) = Len(fd)
                              /\ Cardinality(OnesOf(pred.ValuesOfPredictor)) = 1
                              /\ \A t \in 1..Len(fd) : pred.ValuesOfPredictor[t] \in {0, 1}
                              /\ TheVolume(pred) \in SpikeVolumes
                              /\ pred.NameOfPredictor
                                    = "Spike_" \o ToString(TheVolume(pred) + 1)
                    /\ \A k \in 1..(Len(doc.data) - 1) :
                          TheVolume(doc.data[k]) < TheVolume(doc.data[k + 1])
                    /\ {TheVolume(doc.data[k]) : k \in 1..Len(doc.data)} = SpikeVolumes)

\* a run with one spike and another volume whose displacement equals the
\* threshold
C19_Witness ==
    /\ SpikesDone
    /\ n_spikes = 1
    /\ \E t \in 1..Len(fd) : fd[t].arc = RZero /\ fd[t].mm = fd_threshold
    /\ LastWritten.file = "fdspikes"

\* a run with two spikes, the second a rotation
C19_WitnessTwoSpikes ==
    /\ SpikesDone
    /\ n_spikes = 2
    /\ \E t \in 1..Len(fd) : fd[t].arc # RZero /\ StrictlyAbove(fd[t])
    /\ LastWritten.data[2].NameOfPredictor = "Spike_6"

\* the files written so far for the current run
RunOutputs == {written[k].file : k \in {j \in 1..Len(written) : written[j].run = run + 1}}
NoVolumeAbove == \A t \in 1..Len(fd) : AtOrBelow(fd[t])

\* C20: when no volume of the run has a framewise displacement above the
\* threshold, the spike step writes no document, sets the spike count to 0
\* and records no error and raises none, and the variant documents, the
\* combined model and the FD document of the run stay written.
C20_NoSpikesNoDocument ==
    [][pc = "spikes" /\ NoVolumeAbove =>
          /\ written' = written
          /\ n_spikes' = 0
          /\ errors' = errors
          /\ error' = "none"
          /\ pc' = "rms"
          /\ RunOutputs' = {"zscored", "derivative", "squared", "derivative_squared",
                            model_type \o "model", "fd"}]_vars

\* the spike step has passed a run that moved, but never above the threshold
C20_Witness ==
    /\ SpikesDone
    /\ n_spikes = 0
    /\ \E t \in 1..Len(fd) : fd[t] # MmZero
    /\ RunOutputs = {"zscored", "derivative", "squared", "derivative_squared",
                     model_type \o "model", "fd"}

\* the run whose files the run loop holds: the current one, or, between two
\* runs, the one just finished
HeldRun ==
    IF pc \in {"variants", "combined", "fd", "spikes", "rms"} THEN run + 1
    ELSE IF pc \in {"session", "run", "end"} /\ run > 0 /\ run_files[run].motion_exists
    THEN run
    ELSE 0
MotionRead ==
    pc \in {"combined", "fd", "spikes", "rms"}
    \/ (pc \in {"session", "run", "end"} /\ HeldRun > 0)
InputDoc(r) == run_files[r].motion_file
VariantFiles == {variant_specs[k].name : k \in 1..Len(variant_specs)}
PostfixOf(file) ==
    IF file = "zscored" THEN " zscored"
    ELSE IF file = "derivative" THEN " derivative"
    ELSE IF file = "squared" THEN " squared"
    ELSE " derivative_squared"

\* C21: deriving the outputs of a run changes nothing that was read: at
\* every point of the run and after it the predictor records (names,
\* colours, values) and the header are those of the motion file, and the
\* motion trace is the six value rows of the file; every variant document
\* names its parameters <name in the file><postfix of that variant>, with
\* no postfix of an earlier variant in between.
C21_InputsNotMutated ==
    /\ \A k \in 1..Len(written) :
          written[k].file \in VariantFiles =>
             \A i \in 1..NParams :
                /\ written[k].data[i].NameOfPredictor
                      = InputDoc(written[k].run).data[i].NameOfPredictor
                           \o PostfixOf(written[k].file)
                /\ written[k].data[i].ColorOfPredictor
                      = InputDoc(written[k].run).data[i].ColorOfPredictor
    /\ (HeldRun > 0 =>
          /\ sdm_data = InputDoc(HeldRun).data
          /\ sdm_header = InputDoc(HeldRun).header
          /\ (MotionRead =>
                \A i \in 1..NParams :
                   motion[i] = InputDoc(HeldRun).data[i].ValuesOfPredictor))

\* a run is over, with all of its documents, its spikes and its RMS summary
C21_Witness ==
    /\ pc = "run"
    /\ HeldRun > 0
    /\ n_spikes > 0
    /\ rms_color \in {Green, YellowOrange, Red}
    /\ {written[k].file : k \in {j \in 1..Len(written) : written[j].run = HeldRun}}
          = VariantFiles \cup {model_type \o "model", "fd", "fdspikes"}

RunSummarized == pc \in {"session", "run", "end"} /\ HeldRun > 0
Fifth == Rat(1, 5)
Half == Rat(1, 2)
BoundaryColors == rms_color_of(Fifth) = YellowOrange /\ rms_color_of(Half) = Red

C22_WitnessHalf ==
    /\ RunSummarized
    /\ rms.lo = Half /\ rms.hi = Half
    /\ rms_color = Red

C22_WitnessGreen ==
    /\ RunSummarized
    /\ rms.lo = rms.hi /\ RLt(RZero, rms.lo)
    /\ rms_color = Green

ZScoredFiles == VariantFiles \cup {"12model", "18model", "24model"}

\* C23: no variant document and no combined model holds a NaN: z-scoring a
\* row without variance is an error, not a row of NaN written out.
C23_ZeroVarianceRowIsError ==
    \A k \in 1..Len(written) :
       written[k].file \in ZScoredFiles =>
          \A i \in 1..Len(written[k].data) :
             IsFiniteZ(written[k].data[i].ValuesOfPredictor)

MaxSpikeIndex == 60
IsColor(c) == Len(c) = 3 /\ \A j \in 1..3 : c[j] \in 0..255
\* the colours of the spikes 0..MaxSpikeIndex, as many as a long run can have
ManySpikeColors ==
    \A i \in 0..MaxSpikeIndex :
       LET c == SpikePredictor(i, i, MaxSpikeIndex + 1).ColorOfPredictor
       IN  /\ IsColor(c)
           /\ c[1] = 255 - ((10 * i) % 255)
           /\ c[1] \in 1..255
           /\ c[2] = 0 /\ c[3] = 0
           /\ (i = 0 => c[1] = 255)

\* C24: the colour of the i-th spike predictor (i from 0) is three integers
\* in 0..255: red is 255 - ((10 * i) mod 255), which is 255 for the first
\* spike and never leaves 1..255, and green and blue are 0.
C24_SpikeColors ==
    /\ ManySpikeColors
    /\ \A k \in 1..Len(written) :
          written[k].file = "fdspikes" =>
             \A i \in 1..Len(written[k].data) :
                LET c == written[k].data[i].ColorOfPredictor
                IN  /\ IsColor(c)
                    /\ c = <<255 - ((10 * (i - 1)) % 255), 0, 0>>
                    /\ c[1] \in 1..255

\* a spike document with two spikes, the first full red
C24_Witness ==
    /\ SpikesDone
    /\ n_spikes = 2
    /\ LastWritten.file = "fdspikes"
    /\ LastWritten.data[1].ColorOfPredictor = <<255, 0, 0>>
    /\ LastWritten.data[2].ColorOfPredictor = <<245, 0, 0>>

(***************************************************************************)
(* Properties of the condition loop of read_prt_write_sdm.py.              *)
(***************************************************************************)
\* what one condition contributes, from the condition itself, the kernel,
\* TR, n_vols and the configuration alone
OwnMain(c) ==
    LET u == ConvolveResample(Boxcar(c.Time_start, c.Time_stop, prt_is_msec,
                                     TR, n_vols), hrf, TR, n_vols)
    IN  IF ScalePred1 THEN ArrDiv(u, RMaxOf(u)) ELSE u
OwnPara(c) ==
    LET w == create_weights(c.Parametric_weight, standardize_weights)
    IN  OverStd(ConvolveResample(
                    WeightedBoxcar(c.Time_start, c.Time_stop, Numerators(w),
                                   prt_is_msec, TR, n_vols), hrf, TR, n_vols), w)
OwnPredictors(c) ==
    IF AddParametric(prt_header, c)
    THEN <<Predictor(c.NameOfCondition \o " [Main]", c.Color, OwnMain(c)),
           Predictor(c.NameOfCondition \o " [Parametric]", c.Color, OwnPara(c))>>
    ELSE <<Predictor(c.NameOfCondition, c.Color, OwnMain(c))>>
\* where the predictors of condition k start in the document
FirstOf(k) == k + Cardinality({j \in 1..(k - 1) : AddParametric(prt_header, prt_data[j])})
KernelBuilt == pc \in {"rest", "loop", "conv", "para", "append", "header", "done"}

\* C25: in the assembled document the predictors of every condition are
\* what that condition alone gives with the kernel, TR, n_vols and the
\* configuration, whatever the other conditions of the protocol are; and
\* the kernel stays as it was built.
C25_ConditionsIndependent ==
    /\ (KernelBuilt /\ pc # "rest" /\ error = "none" =>
          hrf = twogamma_hrf(hrf_args.posG, hrf_args.negG, hrf_args.ratio,
                             hrf_args.ScaleToOne, hrf_args.DivideBySum).hrf)
    /\ (Assembled =>
          \A k \in 1..Len(prt_data) :
             LET own == OwnPredictors(prt_data[k])
             IN  SubSeq(sdm_data, FirstOf(k), FirstOf(k) + Len(own) - 1) = own)

\* a document of two conditions with different intervals, the first of
\* them with a parametric predictor
C25_Witness ==
    /\ pc = "done"
    /\ Len(prt_data) = 2
    /\ AddParametric(prt_header, prt_data[1])
    /\ prt_data[1].Time_start # prt_data[2].Time_start
    /\ sdm_data[1].ValuesOfPredictor # sdm_data[3].ValuesOfPredictor

Declared == "ParametricWeights" \in DOMAIN prt_header /\ prt_header.ParametricWeights = 1
VaryingWeights(c) ==
    \E i, j \in 1..Len(c.Parametric_weight) :
       c.Parametric_weight[i] # c.Parametric_weight[j]
ParametricExpected(c) == Declared /\ define_para_sdm /\ VaryingWeights(c)
ExpectedConds == {k \in 1..Len(prt_data) : ParametricExpected(prt_data[k])}
\* where the predictors of condition k are expected in the document
ExpectedFirst(k) == k + Cardinality({j \in ExpectedConds : j < k})

\* C26: in the assembled document the conditions come in protocol order;
\* a condition has a parametric predictor exactly when the protocol
\* declares parametric weights, their generation is enabled and the
\* weights of the condition are not all equal, and then it gives
\* '<name> [Main]' directly followed by '<name> [Parametric]' in the same
\* colour; otherwise it gives one predictor '<name>'. The document holds
\* #conditions + #parametric conditions + 1 predictors.
C26_ParametricPredictors ==
    Assembled =>
       /\ Len(sdm_data) = Len(prt_data) + Cardinality(ExpectedConds) + 1
       /\ \A k \in 1..Len(prt_data) :
             LET c == prt_data[k]
                 p == ExpectedFirst(k)
             IN  IF k \in ExpectedConds
                 THEN /\ sdm_data[p].NameOfPredictor = c.NameOfCondition \o " [Main]"
                      /\ sdm_data[p + 1].NameOfPredictor
                            = c.NameOfCondition \o " [Parametric]"
                      /\ sdm_data[p].ColorOfPredictor = c.Color
                      /\ sdm_data[p + 1].ColorOfPredictor = c.Color
                 ELSE /\ sdm_data[p].NameOfPredictor = c.NameOfCondition
                      /\ sdm_data[p].ColorOfPredictor = c.Color

\* a document with a parametric condition followed by a condition whose
\* weights are all equal although the protocol declares weights
C26_Witness ==
    /\ pc = "done"
    /\ Len(prt_data) = 2
    /\ Declared /\ define_para_sdm
    /\ VaryingWeights(prt_data[1])
    /\ ~VaryingWeights(prt_data[2]) /\ Len(prt_data[2].Parametric_weight) > 1
    /\ Len(sdm_data) = 4

C26_WitnessDisabled ==
    /\ pc = "done"
    /\ Declared /\ ~define_para_sdm
    /\ \E k \in 1..Len(prt_data) : VaryingWeights(prt_data[k])

C26_WitnessUndeclared ==
    /\ pc = "done"
    /\ ~Declared
    /\ \E k \in 1..Len(prt_data) : VaryingWeights(prt_data[k])

WeightsCreated == pc \in {"conv", "para", "append"} /\ add_parametric_predictor
FiniteValues(a) ==
    IF standardize_weights = 2 THEN IsFiniteZ(a) ELSE IsFinite(a)
ParametricPositions ==
    {q \in 1..Len(sdm_data) :
        \E k \in 1..Len(prt_data) :
           sdm_data[q].NameOfPredictor = prt_data[k].NameOfCondition \o " [Parametric]"}

\* C27: whenever the main script has called create_weights, the weights it
\* passed take more than one value, so their standard deviation is not 0;
\* with standardization mode 2 the weights and every parametric predictor
\* in the document are free of NaN and inf.
C27_NoZeroDivisorInPipeline ==
    /\ (WeightsCreated =>
          /\ VaryingWeights(CurCond)
          /\ RVar(CurCond.Parametric_weight) # RZero
          /\ FiniteValues(weights))
    /\ (pc \in {"loop", "header", "done"} =>
          \A q \in ParametricPositions :
             FiniteValues(sdm_data[q].ValuesOfPredictor))

\* a z-scored parametric predictor that is not flat, in a document that
\* also holds a condition whose two weights are equal
C27_Witness ==
    /\ pc = "done"
    /\ standardize_weights = 2
    /\ ParametricPositions # {}
    /\ \E q \in ParametricPositions :
          \E t \in 1..n_vols : sdm_data[q].ValuesOfPredictor[t].dev # RZero
    /\ \E k \in 1..Len(prt_data) :
          Len(prt_data[k].Parametric_weight) = 2 /\ ~VaryingWeights(prt_data[k])



(***************************************************************************)
(* The batch loop of the motion script (SpecMotion).                       *)
(***************************************************************************)
\* the runs the loop is done with
Handled == 1..run
MessagesOf(k) == {j \in 1..Len(errors) : errors[j][2] = k}
WrittenOf(k) == {j \in 1..Len(written) : written[j].run = k}
PlotsOf(k) == {j \in 1..Len(plots) : plots[j].run = k}
NoErrorsSummary == "All SDM motion files processed without errors"

\* a missing motion SDM: nothing written, nothing plotted, one message
SkippedCleanly(k) ==
    /\ WrittenOf(k) = {}
    /\ PlotsOf(k) = {}
    /\ \E j \in 1..Len(errors) :
          /\ MessagesOf(k) = {j}
          /\ errors[j] = ErrorMsg("Motion SDM", k)

\* a missing FMR or PRT: the run is written all the same, the carpet or the
\* overlay is off in its plot, and the message is recorded
ProcessedWithFlags(k) ==
    LET f == run_files[k]
        carpet == USE_CARPET /\ f.fmr_exists
        overlay == USE_PRT /\ f.prt_exists
    IN  /\ {"zscored", model_type \o "model", "fd"} \subseteq
               {written[j].file : j \in WrittenOf(k)}
        /\ PLOTTING =>
              \E j \in 1..Len(plots) :
                 /\ PlotsOf(k) = {j}
                 /\ plots[j].CARPET = carpet
                 /\ plots[j].PRT = overlay
        /\ {errors[j] : j \in MessagesOf(k)} =
               (IF USE_CARPET /\ ~f.fmr_exists THEN {ErrorMsg("FMR", k)} ELSE {})
               \cup (IF USE_PRT /\ ~f.prt_exists THEN {ErrorMsg("PRT", k)} ELSE {})

LoopHandlesRuns ==
    \A k \in 1..Len(run_files) :
        k \in Handled =>
            IF run_files[k].motion_exists THEN ProcessedWithFlags(k)
            ELSE SkippedCleanly(k)

SummaryTellsErrors ==
    pc = "end" =>
        /\ run = Len(run_files)
        /\ (summary = NoErrorsSummary) <=> (errors = <<>>)

\* C28: in the batch loop a run whose motion SDM is missing is skipped with
\* nothing written for it and exactly one recorded message, a missing FMR or
\* PRT only switches the carpet or the overlay off and records a message,
\* every later run, session and subject is still processed (nothing but the
\* rejected model type stops the script), and the summary says 'no errors'
\* exactly when no message was recorded.
C28_BatchLoopContinues ==
    /\ LoopHandlesRuns
    /\ SummaryTellsErrors
    /\ pc = "aborted" => error = "AssertionError"

\* the same with every session folder present
AllSessionFolders == \A k \in 1..Len(run_files) : run_files[k].dir_exists
C28_WithSessionFolders ==
    AllSessionFolders => C28_BatchLoopContinues

\* a skipped run followed by a processed one, then the summary of errors
C28_SkippedThenProcessed ==
    /\ pc = "end"
    /\ Len(run_files) = 2
    /\ ~run_files[1].motion_exists
    /\ run_files[2].motion_exists
    /\ WrittenOf(2) # {}
    /\ summary = "SUMMARY OF ERRORS"

\* the script stopped at a session without folder, runs left unprocessed
C28_StoppedAtSession ==
    /\ pc = "aborted"
    /\ error = "FileNotFoundError"
    /\ run < Len(run_files)


(***************************************************************************)
(* The step loop of preprocess_fmr.py (SpecPrep).                          *)
(***************************************************************************)
CallsOf(r) == SelectSeq(calls, LAMBDA c : c.run = r)
StepsOf(cs) == [j \in 1..Len(cs) |-> cs[j].step]
Returned_Steps(cs) == StepsOf(SelectSeq(cs, LAMBDA c : c.outcome = "returns"))

\* how many entries of pipeline_order the step loop of run r has dealt with
StepsDone(r) ==
    IF r <= prep_run THEN Len(pipeline_order)
    ELSE IF r = prep_run + 1 /\ pc = "prep_step" THEN step
    ELSE 0

\* the first n entries of pipeline_order that are switched on
EnabledUpTo(n) ==
    SelectSeq(SubSeq(pipeline_order, 1, n), LAMBDA s : OptionGet(options, s))

\* exactly the enabled steps are called, in pipeline_order
CalledInOrder ==
    \A r \in 1..Len(run_inputs) :
        StepsOf(CallsOf(r)) =
            IF run_inputs[r] THEN EnabledUpTo(StepsDone(r)) ELSE <<>>

\* every call works on the file made by the steps of the run that returned
\* before it, and so does the next one
ChainedOnSuccess ==
    /\ \A r \in 1..Len(run_inputs) :
          \A j \in 1..Len(CallsOf(r)) :
             CallsOf(r)[j].file =
                 [run |-> r, applied |-> Returned_Steps(SubSeq(CallsOf(r), 1, j - 1))]
    /\ pc = "prep_step" =>
          current_file = [run |-> prep_run + 1,
                          applied |-> Returned_Steps(CallsOf(prep_run + 1))]

StepErrors(msgs, r, s) ==
    Cardinality({j \in 1..Len(msgs) :
                    /\ msgs[j].has_ERROR
                    /\ msgs[j].run = r
                    /\ msgs[j].step = s})
FailedCalls(r, s) ==
    Cardinality({j \in 1..Len(calls) :
                    /\ calls[j].run = r
                    /\ calls[j].step = s
                    /\ calls[j].outcome # "returns"})

\* every failure is in the log and in the collected errors, once
FailuresLoggedAndCollected ==
    \A r \in 1..Len(run_inputs) : \A s \in PrepSteps :
        /\ StepErrors(log, r, s) = FailedCalls(r, s)
        /\ StepErrors(all_errors, r, s) = FailedCalls(r, s)

\* C29: for each run the enabled steps are called in pipeline_order and the
\* disabled ones are skipped; each step works on the output of the last step
\* of the run that succeeded; a failing step is logged and collected, leaves
\* the current file where it was, and the remaining steps, runs and the rest
\* of the batch are still processed.
C29_PipelineSurvivesFailures ==
    /\ ChainedOnSuccess
    /\ CalledInOrder
    /\ FailuresLoggedAndCollected
    /\ error = "none" /\ pc # "aborted"
    /\ pc = "prep_end" => prep_run = Len(run_inputs)

\* a run in which a step succeeds, the next fails and a third works on the
\* output of the first, followed by a second run that is processed too
C29_Witness ==
    /\ pc = "prep_end"
    /\ Len(run_inputs) = 2
    /\ \E i, j, k \in 1..Len(CallsOf(1)) :
          /\ i < j /\ j < k
          /\ CallsOf(1)[i].outcome = "returns"
          /\ CallsOf(1)[j].outcome # "returns"
          /\ CallsOf(1)[k].outcome = "returns"
          /\ CallsOf(1)[k].file = preprocessed_fmr_name(CallsOf(1)[i].file,
                                                        CallsOf(1)[i].step)
    /\ CallsOf(2) # <<>>
    /\ \E s \in PrepSteps : ~OptionGet(options, s)


(***************************************************************************)
(* convert_to_tsv against the seconds of the SDM script (SpecTsv).         *)
(***************************************************************************)
TsvReturned == pc = "return_tsv"

\* the row of interval j of condition k
RECURSIVE RowsBefore(_)
RowsBefore(k) ==
    IF k = 1 THEN 0 ELSE RowsBefore(k - 1) + Len(prt_data[k - 1].Time_start)
RowOf(k, j) == rows[RowsBefore(k) + j]

AllIntervals ==
    {kj \in (1..Len(prt_data)) \X (1..MaxIntervals) :
        kj[2] <= Len(prt_data[kj[1]].Time_start)}

\* the onset of the row is the start second of the SDM script
OnsetAgrees(k, j) ==
    RowOf(k, j)[1] = StartSec(prt_data[k].Time_start[j], prt_is_msec, TR)

\* onset + duration of the row is the stop second of the SDM script
OffsetAgrees(k, j) ==
    FAdd(RowOf(k, j)[1], RowOf(k, j)[2])
        = StopSec(prt_data[k].Time_stop[j], prt_is_msec, TR)

\* C30: for every interval of the protocol the onset of its TSV row equals
\* the start second, and onset + duration the stop second, that the SDM
\* script converts to sample indices, in volume and in millisecond
\* resolution.
C30_TsvTimingIsSdmTiming ==
    TsvReturned =>
        \A kj \in AllIntervals : OnsetAgrees(kj[1], kj[2]) /\ OffsetAgrees(kj[1], kj[2])

\* what does hold: one row per interval in protocol order with the name of
\* its condition, the offset before rounding is the stop second of the SDM
\* script, and in millisecond resolution the onsets agree
C30_RowsAndOffsets ==
    TsvReturned =>
        /\ Len(rows) = Cardinality(AllIntervals)
        /\ \A kj \in AllIntervals :
              LET c == prt_data[kj[1]]
              IN  /\ RowOf(kj[1], kj[2])[3] = c.NameOfCondition
                  /\ TsvOffset(c.Time_stop[kj[2]], prt_is_msec, TR)
                         = StopSec(c.Time_stop[kj[2]], prt_is_msec, TR)
                  /\ prt_is_msec => OnsetAgrees(kj[1], kj[2])

\* the two scripts start volume 12 of a 100 ms run at different samples
C30_OnsetsOneSampleApart ==
    /\ TsvReturned
    /\ ~prt_is_msec
    /\ TR = 100
    /\ Len(prt_data) = 1
    /\ prt_data[1].Time_start = <<12>>
    /\ SampleIdx(rows[1][1]) = 110
    /\ StartIdx(12, FALSE, TR) = 109

====
